---- MODULE Spec2Model ----
(***************************************************************************)
(* A model of IPAM Web's client-side code: the IP range matcher            *)
(* (_webpack/range.js), the query parser (_webpack/query.js), the data     *)
(* fetcher (_webpack/ipam.js), the search (_webpack/search.js), the page   *)
(* renderer (_webpack/page.js) and the site functions (main.js).           *)
(*                                                                         *)
(* Strings are sequences of one-character strings, so that splitting,      *)
(* trimming, escaping and parsing are computed character by character.     *)
(* IP addresses are the objects of ipaddr.js: a kind and the octets (IPv4)  *)
(* or the 16 bit parts (IPv6).                                             *)
(***************************************************************************)
EXTENDS Integers, Sequences, FiniteSets, TLC

VARIABLES
  range,      \* SpecRange: the IpRange object under test
  ip,         \* SpecRange: the IP passed to IpRange.match
  matched,    \* SpecRange: what IpRange.match returned ("unset" before)
  formInput,  \* SpecQuery: the text of the search form's 'query' field
  formQuery,  \* SpecQuery: Query.parse of it, in Search.handleSearchForm
  location,   \* window.location: the page and the raw text after '?q='
  global,     \* Query.global of the page at window.location
  qpc,        \* SpecQuery: "form", "redirected" or "loaded"
  server,     \* the API files: <<version, file>> -> HTTP response
  calls,      \* the IPAM calls made: call id -> operation and arguments
  inflight,   \* the HTTP requests under way: <<call id, version>>
  arrived,    \* the results of IPAM.fetch, in order of arrival
  settled,    \* call id -> state and value of the promise the call returned
  searchQuery,\* SpecSearch: the query passed to Search.search
  results,    \* SpecSearch: state and value of the promise of Search.search
  page,       \* SpecPage: the site function the page has called
  title,      \* document.title
  content,    \* element id -> what Page.setContent has put into the element
  classList,  \* element id -> the classes d-none and d-block of the element
  rows,       \* table -> the items Page.addTableRows has added rows for
  href        \* the href of the external lookup button 'ipam.ip.lookup'

rangeVars == <<range, ip, matched>>
queryVars == <<formInput, formQuery, location, global, qpc>>
fetchVars == <<server, calls, inflight, arrived, settled>>
searchVars == <<searchQuery, results>>
pageVars == <<page, title, content, classList, rows, href>>
vars == <<range, ip, matched, formInput, formQuery, location, global, qpc,
          server, calls, inflight, arrived, settled, searchQuery, results,
          page, title, content, classList, rows, href>>

(***************************************************************************)
(* Bounds of the model.                                                    *)
(***************************************************************************)
MaxOctet == 2       \* the varied octets of pooled IPv4 addresses are 0..MaxOctet
MaxRecords == 2     \* an API file of SpecFetch holds at most MaxRecords records
MaxSearchRecords == 1   \* an IPv4 file of SpecSearch holds at most this many
MaxPageRecords == 1     \* an API file of SpecPage holds at most this many
MaxLookupRecords == 2   \* an IPv4 file of SpecLookup holds at most this many
MaxTableCalls == 2      \* Page.addTableRows is called at most this often on a table
MaxTableItems == 2      \* and with at most this many items

(***************************************************************************)
(* The values of the variables a specification does not use.               *)
(***************************************************************************)
NoRange == [cls |-> "none"]
NoIp == [kind |-> "none"]
NoQuery == [cls |-> "none"]
NoLocation == [path |-> "none", search |-> <<>>]

RangeIdle == range = NoRange /\ ip = NoIp /\ matched = "unset"
QueryIdle ==
  /\ formInput = <<>> /\ formQuery = NoQuery /\ location = NoLocation
  /\ global = NoQuery /\ qpc = "idle"

FetchIdle ==
  /\ server = <<>> /\ calls = <<>> /\ inflight = {} /\ arrived = <<>>
  /\ settled = <<>>

NoSearch == [state |-> "none"]
SearchIdle == searchQuery = <<>> /\ results = NoSearch

PageIdle ==
  /\ page = "none" /\ title = <<>> /\ content = <<>> /\ classList = <<>>
  /\ rows = <<>> /\ href = <<>>

(***************************************************************************)
(* Generic helpers.                                                        *)
(***************************************************************************)
Min(S) == CHOOSE m \in S : \A n \in S : m <= n
Max(S) == CHOOSE m \in S : \A n \in S : m >= n

(***************************************************************************)
(* ipaddr.js address objects.                                              *)
(***************************************************************************)
IPv4(octets) == [kind |-> "ipv4", octets |-> octets]
IPv6(parts)  == [kind |-> "ipv6", parts |-> parts]

\* ip.toByteArray(): the octets of an IPv4 address; for IPv6 each 16 bit
\* part gives its high byte and its low byte.
ToByteArray(a) ==
  IF a.kind = "ipv4" THEN a.octets
  ELSE [i \in 1..(2 * Len(a.parts)) |->
          IF i % 2 = 1 THEN a.parts[(i + 1) \div 2] \div 256
                       ELSE a.parts[i \div 2] % 256]

(***************************************************************************)
(* Strings: sequences of one-character strings.                            *)
(***************************************************************************)
Digits == {"0", "1", "2", "3", "4", "5", "6", "7", "8", "9"}
DigitVal ==
  [c \in Digits |->
     CASE c = "0" -> 0 [] c = "1" -> 1 [] c = "2" -> 2 [] c = "3" -> 3
       [] c = "4" -> 4 [] c = "5" -> 5 [] c = "6" -> 6 [] c = "7" -> 7
       [] c = "8" -> 8 [] c = "9" -> 9]
DigitChar == <<"1", "2", "3", "4", "5", "6", "7", "8", "9">>

IsDigits(s) == Len(s) > 0 /\ \A i \in DOMAIN s : s[i] \in Digits

\* parseInt(s, base) of a string of digits
RECURSIVE ParseInt(_, _)
ParseInt(s, base) ==
  IF s = <<>> THEN 0
  ELSE base * ParseInt(SubSeq(s, 1, Len(s) - 1), base) + DigitVal[s[Len(s)]]

\* String(n) of a natural number
RECURSIVE NatToString(_)
NatToString(n) ==
  IF n = 0 THEN <<"0">>
  ELSE IF n < 10 THEN <<DigitChar[n]>>
  ELSE NatToString(n \div 10) \o NatToString(n % 10)

\* str.split(sep) for a one-character separator: the pieces between the
\* occurrences of sep, empty pieces included
Split(s, sep) ==
  LET at == {i \in DOMAIN s : s[i] = sep}
      n == Cardinality(at)
      pos == [k \in 0..(n + 1) |->
                IF k = 0 THEN 0
                ELSE IF k = n + 1 THEN Len(s) + 1
                ELSE CHOOSE i \in at : Cardinality({j \in at : j < i}) = k - 1]
  IN  [k \in 1..(n + 1) |-> SubSeq(s, pos[k - 1] + 1, pos[k] - 1)]

\* parts.join(sep)
RECURSIVE Join(_, _)
Join(parts, sep) ==
  IF parts = <<>> THEN <<>>
  ELSE IF Len(parts) = 1 THEN parts[1]
  ELSE parts[1] \o sep \o Join(Tail(parts), sep)

\* str.trim()
WhiteSpace == {" "}
Trim(s) ==
  LET solid == {i \in DOMAIN s : s[i] \notin WhiteSpace}
  IN  IF solid = {} THEN <<>> ELSE SubSeq(s, Min(solid), Max(solid))

\* str.replace(/ /g, '')
RemoveSpaces(s) == SelectSeq(s, LAMBDA c : c # " ")

(***************************************************************************)
(* ipaddr.js: parsing and printing IPv4 addresses and CIDR subnets. The    *)
(* text forms modelled are the four part dotted form (parts decimal, or    *)
(* octal when written with a leading zero) and the single number form;     *)
(* IPv6 text is not modelled.                                              *)
(***************************************************************************)
\* parseIntAuto of ipaddr.js on a string of digits; -1 when it throws
ParseIntAuto(p) ==
  IF Len(p) > 1 /\ p[1] = "0"
  THEN IF \A i \in DOMAIN p : DigitVal[p[i]] < 8 THEN ParseInt(p, 8) ELSE -1
  ELSE ParseInt(p, 10)

\* ipaddr.IPv4.parser: the octets, or <<>> when no form matches
IPv4Parser(s) ==
  LET parts == Split(s, ".")
  IN  IF Len(parts) = 4 /\ \A k \in 1..4 : IsDigits(parts[k])
      THEN [k \in 1..4 |-> ParseIntAuto(parts[k])]
      ELSE IF IsDigits(s) /\ Len(s) <= 9
      THEN LET v == ParseIntAuto(s)
           IN  IF v < 0 THEN <<-1>>
               ELSE <<v \div 16777216, (v \div 65536) % 256,
                      (v \div 256) % 256, v % 256>>
      ELSE <<>>

\* ipaddr.isValid(string)
IsValid(s) ==
  LET o == IPv4Parser(s)
  IN  Len(o) = 4 /\ \A k \in 1..4 : o[k] >= 0 /\ o[k] <= 255

\* ipaddr.process(string), for a valid string
Process(s) == IPv4(IPv4Parser(s))

\* ipaddr.parseCIDR(string) matches /^(.+)\/(\d+)$/, so the last '/' splits;
\* the result is the pair [address, prefix length], Nothing when it throws
Nothing == [cls |-> "throws"]
Subnet(addr, bits) == [cls |-> "Array", addr |-> addr, bits |-> bits]
ParseCIDR(s) ==
  LET at == {i \in DOMAIN s : s[i] = "/"}
  IN  IF at = {} THEN Nothing
      ELSE LET head == SubSeq(s, 1, Max(at) - 1)
               tail == SubSeq(s, Max(at) + 1, Len(s))
           IN  IF /\ Len(head) > 0
                  /\ IsDigits(tail) /\ Len(tail) <= 9
                  /\ ParseInt(tail, 10) <= 32
                  /\ IsValid(head)
               THEN Subnet(Process(head), ParseInt(tail, 10))
               ELSE Nothing

\* ip.toString() of an IPv4 address
IpToString(a) == Join([k \in 1..4 |-> NatToString(a.octets[k])], <<".">>)

(***************************************************************************)
(* IpRange (_webpack/range.js).                                            *)
(***************************************************************************)
IpRange(first, last) == [cls |-> "IpRange", first |-> first, last |-> last]

\* The two comparison functions IpRange.match passes to IpRange.cmp.
CmpFunc(f, i, j) == IF f = "i<j" THEN i < j ELSE i > j

\* IpRange.cmp: the first index where the byte arrays differ decides, by
\* cmpFunc(b[i], a[i]); if none differs the result is true.
CmpFromLastByte(addr, rangeIp, cmpFunc) ==
  LET a == ToByteArray(addr)
      b == ToByteArray(rangeIp)
      differ == {i \in DOMAIN a : a[i] # b[i]}
  IN  IF differ = {} THEN TRUE
      ELSE CmpFunc(cmpFunc, b[Max(differ)], a[Max(differ)])
Cmp(addr, rangeIp, cmpFunc) ==
  LET a == ToByteArray(addr)
      b == ToByteArray(rangeIp)
      differ == {i \in DOMAIN a : a[i] # b[i]}
  IN  IF differ = {} THEN TRUE
      ELSE CmpFunc(cmpFunc, b[Min(differ)], a[Min(differ)])

\* IpRange.match
Match(r, addr) == Cmp(addr, r.first, "i<j") /\ Cmp(addr, r.last, "i>j")

(***************************************************************************)
(* Query (_webpack/query.js) and the URLs of Search and Page.              *)
(***************************************************************************)
Str(chars) == [cls |-> "String", chars |-> chars]
Null == [cls |-> "null"]

\* IpRange.isValid
RangeIsValid(s) ==
  LET ips == Split(s, "-")
  IN  Len(ips) = 2 /\ \A k \in 1..2 : IsValid(ips[k])

\* IpRange.process
RangeProcess(s) ==
  LET ips == Split(s, "-")
  IN  IpRange(Process(ips[1]), Process(ips[2]))

\* Query.parse
ParseTrimmed(q) ==
  LET t == Trim(q)
  IN  IF IsValid(t) THEN Process(t)
      ELSE IF RangeIsValid(t) THEN RangeProcess(t)
      ELSE IF ParseCIDR(t) # Nothing THEN ParseCIDR(t)
      ELSE Str(t)
Parse(q) ==
  IF IsValid(q) THEN Process(q)
  ELSE IF RangeIsValid(q) THEN RangeProcess(q)
  ELSE IF ParseCIDR(q) # Nothing THEN ParseCIDR(q)
  ELSE Str(Trim(q))

\* Query.isIP: instanceof ipaddr.IPv4 or ipaddr.IPv6
IsIP(q) == "kind" \in DOMAIN q /\ q.kind \in {"ipv4", "ipv6"}
\* q instanceof IpRange
IsIpRange(q) == "cls" \in DOMAIN q /\ q.cls = "IpRange"
\* Query.isSubnet: an Array whose first element is an IP
IsSubnet(q) == "cls" \in DOMAIN q /\ q.cls = "Array" /\ IsIP(q.addr)
IsString(q) == "cls" \in DOMAIN q /\ q.cls = "String"

\* IpRange.toString
RangeToString(r) ==
  IpToString(r.first) \o <<" ", "-", " ">> \o IpToString(r.last)

\* String(value): toString of the address, of the range, of the pair that
\* ipaddr.parseCIDR returns (address '/' prefix length), or the string
StringOf(v) ==
  IF IsIP(v) THEN IpToString(v)
  ELSE IF IsIpRange(v) THEN RangeToString(v)
  ELSE IF IsSubnet(v) THEN IpToString(v.addr) \o <<"/">> \o NatToString(v.bits)
  ELSE IF IsString(v) THEN v.chars
  ELSE <<"n", "u", "l", "l">>

\* encodeURIComponent: every character but the unreserved ones is replaced
\* by its percent escape
Letters == {"a", "b", "c", "d", "e", "f", "g", "h", "i", "j", "k", "l", "m",
            "n", "o", "p", "q", "r", "s", "t", "u", "v", "w", "x", "y", "z"}
Unreserved == Digits \cup Letters \cup {"-", "_", ".", "!", "~", "*", "'", "(", ")"}
Escape(c) ==
  CASE c = " " -> <<"%", "2", "0">>
    [] c = "\"" -> <<"%", "2", "2">>
    [] c = "#" -> <<"%", "2", "3">>
    [] c = "%" -> <<"%", "2", "5">>
    [] c = "&" -> <<"%", "2", "6">>
    [] c = "+" -> <<"%", "2", "B">>
    [] c = "," -> <<"%", "2", "C">>
    [] c = "/" -> <<"%", "2", "F">>
    [] c = "<" -> <<"%", "3", "C">>
    [] c = "=" -> <<"%", "3", "D">>
Escaped == {" ", "\"", "#", "%", "&", "+", ",", "/", "<", "="}
RECURSIVE EncodeURIComponent(_)
EncodeURIComponent(s) ==
  IF s = <<>> THEN <<>>
  ELSE (IF s[1] \in Unreserved THEN <<s[1]>> ELSE Escape(s[1]))
       \o EncodeURIComponent(Tail(s))

\* The decoding URLSearchParams applies to a value: '+' is a space and a
\* percent escape is its character
RECURSIVE Decode(_)
Decode(s) ==
  IF s = <<>> THEN <<>>
  ELSE IF s[1] = "+" THEN <<" ">> \o Decode(Tail(s))
  ELSE IF /\ s[1] = "%" /\ Len(s) >= 3
          /\ \E c \in Escaped : Escape(c) = SubSeq(s, 1, 3)
  THEN <<CHOOSE c \in Escaped : Escape(c) = SubSeq(s, 1, 3)>>
       \o Decode(SubSeq(s, 4, Len(s)))
  ELSE <<s[1]>> \o Decode(Tail(s))

\* new URLSearchParams(window.location.search).get('q'): the value of the
\* first q parameter, decoded; Null when there is none
SearchParamQ(search) ==
  LET body == IF search # <<>> /\ search[1] = "?" THEN Tail(search) ELSE search
      params == Split(body, "&")
      qs == {k \in DOMAIN params :
               Len(params[k]) >= 2 /\ SubSeq(params[k], 1, 2) = <<"q", "=">>}
  IN  IF body = <<>> \/ qs = {} THEN Null
      ELSE Str(Decode(SubSeq(params[Min(qs)], 3, Len(params[Min(qs)]))))

\* Page.toResourceUrl(url, resource): the page and its search part
ToResourceUrl(url, resource) ==
  [path |-> url, search |-> <<"?", "q", "=">> \o RemoveSpaces(resource)]

\* Search.getResourceTypeUrl
GetResourceTypeUrlNoRange(q) ==
  IF IsIP(q) THEN "/lookup/ip.html"
  ELSE IF IsSubnet(q) THEN "/lookup/subnet.html"
  ELSE "/search.html"
GetResourceTypeUrl(q) ==
  IF IsIP(q) THEN "/lookup/ip.html"
  ELSE IF IsIpRange(q) THEN "/lookup/range.html"
  ELSE IF IsSubnet(q) THEN "/lookup/subnet.html"
  ELSE "/search.html"

(***************************************************************************)
(* IPAM (_webpack/ipam.js): JSON values, promises and IPAM.fetch.          *)
(***************************************************************************)
\* JSON values: a string, a number; records are functions from their keys
S(chars) == [t |-> "string", v |-> chars]
N(n) == [t |-> "number", v |-> n]
Obj(class, v) == [t |-> class, v |-> v]

Versions == {"v4", "v6"}
Files == {"ip.json", "range.json", "subnet.json", "block.json"}

Undefined == [cls |-> "undefined"]

Pending == [state |-> "pending"]
Rejected == [state |-> "rejected"]
Fulfilled(v) == [state |-> "fulfilled", value |-> v]

\* str.replace(/c/g, by)
RECURSIVE ReplaceAll(_, _, _)
ReplaceAll(str, c, by) ==
  IF str = <<>> THEN <<>>
  ELSE (IF str[1] = c THEN by ELSE <<str[1]>>) \o ReplaceAll(Tail(str), c, by)

AmpEntity == <<"&", "a", "m", "p", ";">>
LtEntity == <<"&", "l", "t", ";">>
QuotEntity == <<"&", "q", "u", "o", "t", ";">>

\* IPAM.sanitizeValues
SanitizeLtFirst(item) ==
  [k \in DOMAIN item |->
     IF item[k].t = "string"
     THEN S(ReplaceAll(ReplaceAll(ReplaceAll(item[k].v, "<", LtEntity),
                                  "&", AmpEntity), "\"", QuotEntity))
     ELSE item[k]]
SanitizeValues(item) ==
  [k \in DOMAIN item |->
     IF item[k].t = "string"
     THEN S(ReplaceAll(ReplaceAll(ReplaceAll(item[k].v, "&", AmpEntity),
                                  "<", LtEntity), "\"", QuotEntity))
     ELSE item[k]]

\* IPAM.parseDateFields: the date fields become Date objects
DateFields == {"assigned", "expires", "received", "changed"}
ParseDateFields(item) ==
  [k \in DOMAIN item |->
     IF k \in DateFields THEN Obj("Date", item[k]) ELSE item[k]]

\* IPAM.fetch(ipVersion, file), given the HTTP response: a 404 is an empty
\* collection; the body of another response that is no JSON array rejects
FetchRejects404(response) ==
  IF response.status = 200
  THEN Fulfilled([i \in DOMAIN response.body |->
                    ParseDateFields(SanitizeValues(response.body[i]))])
  ELSE Rejected
Fetch(response) ==
  IF response.status = 404 THEN Fulfilled(<<>>)
  ELSE IF response.status = 200
  THEN Fulfilled([i \in DOMAIN response.body |->
                    ParseDateFields(SanitizeValues(response.body[i]))])
  ELSE Rejected

\* The results of IPAM.fetch that have arrived for a call
HasArrived(arr, id, v) == \E i \in DOMAIN arr : arr[i].id = id /\ arr[i].v = v
Arrived(arr, id, v) ==
  arr[CHOOSE i \in DOMAIN arr : arr[i].id = id /\ arr[i].v = v].res

\* IPAM.fetchCollection(file, version): the one fetch, or Promise.all of the
\* v4 and the v6 fetch, flattened
RequestedVersions(call) ==
  IF call.version = "null" THEN Versions ELSE {call.version}
FetchCollectionByArrival(call, id, arr) ==
  LET mine == SelectSeq(arr, LAMBDA e : e.id = id)
  IN  IF \E i \in DOMAIN mine : mine[i].res.state = "rejected" THEN Rejected
      ELSE IF Len(mine) < Cardinality(RequestedVersions(call)) THEN Pending
      ELSE IF Len(mine) = 1 THEN mine[1].res
      ELSE Fulfilled(mine[1].res.value \o mine[2].res.value)
FetchCollection(call, id, arr) ==
  IF call.version # "null"
  THEN IF HasArrived(arr, id, call.version)
       THEN Arrived(arr, id, call.version) ELSE Pending
  ELSE IF \E v \in Versions :
            HasArrived(arr, id, v) /\ Arrived(arr, id, v).state = "rejected"
       THEN Rejected
       ELSE IF \A v \in Versions : HasArrived(arr, id, v)
       THEN Fulfilled(Arrived(arr, id, "v4").value \o Arrived(arr, id, "v6").value)
       ELSE Pending

\* str.toUpperCase()
LowerCase == <<"a", "b", "c", "d", "e", "f", "g", "h", "i", "j", "k", "l", "m",
               "n", "o", "p", "q", "r", "s", "t", "u", "v", "w", "x", "y", "z">>
UpperCase == <<"A", "B", "C", "D", "E", "F", "G", "H", "I", "J", "K", "L", "M",
               "N", "O", "P", "Q", "R", "S", "T", "U", "V", "W", "X", "Y", "Z">>
ToUpperCase(str) ==
  [i \in DOMAIN str |->
     IF \E k \in DOMAIN LowerCase : LowerCase[k] = str[i]
     THEN UpperCase[CHOOSE k \in DOMAIN LowerCase : LowerCase[k] = str[i]]
     ELSE str[i]]

\* MacAddress.process and the MacAddress constructor
MacAddress(str) ==
  Obj("MacAddress", SelectSeq(ToUpperCase(str), LAMBDA c : c \notin {".", ":", "-"}))

StartsWith(str, prefix) ==
  Len(str) >= Len(prefix) /\ SubSeq(str, 1, Len(prefix)) = prefix
LookupPrefix == <<"l", "o", "o", "k", "u", "p", ":">>

\* IPAM.enrichIp
EnrichIp(data) ==
  IF "mac" \in DOMAIN data
  THEN [data EXCEPT !["mac"] = MacAddress(data["mac"].v)]
  ELSE data
EnrichIpThrows(data) == "mac" \in DOMAIN data /\ data["mac"].t # "string"

\* IPAM.enrichRange: ipaddr.process throws on a text that is no IP address
EnrichRange(data) ==
  data @@ ("range" :> Obj("IpRange", IpRange(Process(data["ip_first"].v),
                                              Process(data["ip_last"].v))))
EnrichRangeThrows(data) ==
  \E k \in {"ip_first", "ip_last"} :
    \/ k \notin DOMAIN data
    \/ data[k].t # "string"
    \/ ~IsValid(data[k].v)

\* IPAM.enrichSubnet: an owner 'lookup:URL' becomes the lookup_url
EnrichSubnet(data) ==
  IF "owner" \in DOMAIN data /\ StartsWith(data["owner"].v, LookupPrefix)
  THEN [k \in (DOMAIN data \ {"owner"}) \cup {"lookup_url"} |->
          IF k = "lookup_url"
          THEN S(SubSeq(data["owner"].v, Len(LookupPrefix) + 1, Len(data["owner"].v)))
          ELSE data[k]]
  ELSE data
EnrichSubnetThrows(data) == "owner" \in DOMAIN data /\ data["owner"].t # "string"

\* IPAM.fetchIpAll, fetchRangeAll, fetchSubnetAll, fetchBlockAll: the
\* collection, each record enriched
FetchAll(call, id, arr) ==
  LET coll == FetchCollection(call, id, arr)
  IN  IF coll.state # "fulfilled" THEN coll
      ELSE CASE call.file = "ip.json" ->
                  IF \E i \in DOMAIN coll.value : EnrichIpThrows(coll.value[i])
                  THEN Rejected
                  ELSE Fulfilled([i \in DOMAIN coll.value |-> EnrichIp(coll.value[i])])
             [] call.file = "range.json" ->
                  IF \E i \in DOMAIN coll.value : EnrichRangeThrows(coll.value[i])
                  THEN Rejected
                  ELSE Fulfilled([i \in DOMAIN coll.value |-> EnrichRange(coll.value[i])])
             [] call.file = "subnet.json" ->
                  IF \E i \in DOMAIN coll.value : EnrichSubnetThrows(coll.value[i])
                  THEN Rejected
                  ELSE Fulfilled([i \in DOMAIN coll.value |-> EnrichSubnet(coll.value[i])])
             [] call.file = "block.json" -> coll

(***************************************************************************)
(* The lookups of IPAM (_webpack/ipam.js) and the matching of ipaddr.js.   *)
(***************************************************************************)
\* matchCIDR of ipaddr.js: the leading cidrBits bits of the two arrays of
\* parts agree
MatchCIDRByParts(first, second, partSize, cidrBits) ==
  \A part \in DOMAIN first :
    (part - 1) * partSize < cidrBits => first[part] = second[part]
MatchCIDR(first, second, partSize, cidrBits) ==
  \A part \in DOMAIN first :
    (part - 1) * partSize < cidrBits =>
      LET left == cidrBits - (part - 1) * partSize
          shift == IF partSize - left < 0 THEN 0 ELSE partSize - left
      IN  first[part] \div (2 ^ shift) = second[part] \div (2 ^ shift)

\* ip.match(subnet), for the pair ipaddr.parseCIDR returns; it throws when
\* the two addresses are of different kinds
IpMatch(addr, subnet) ==
  IF addr.kind = "ipv4"
  THEN MatchCIDR(addr.octets, subnet.addr.octets, 8, subnet.bits)
  ELSE MatchCIDR(addr.parts, subnet.addr.parts, 16, subnet.bits)
IpMatchThrows(addr, subnet) == addr.kind # subnet.addr.kind

\* IPAM.ipVersion
IpVersion(addr) == IF addr.kind = "ipv4" THEN "v4" ELSE "v6"

\* The filter of IPAM.fetchIpByName, which lookup_ip calls: the records
\* of the name
FetchIpByNameHit(item, name) == "name" \in DOMAIN item /\ item["name"] = name

\* The callbacks the lookups pass to response.find and response.filter:
\* whether the callback throws for an item,
HasText(item, key) == key \in DOMAIN item /\ item[key].t = "string"
LookupThrows(op, arg, item) ==
  CASE op = "fetchIpOfRange" ->
         \/ ~HasText(item, "ip")
         \/ ~IsValid(item["ip"].v)
         \/ Process(item["ip"].v).kind # arg.first.kind
    [] op \in {"fetchSubnetByIp", "fetchBlockByIp"} ->
         \/ ~HasText(item, "network")
         \/ ParseCIDR(item["network"].v) = Nothing
         \/ IpMatchThrows(arg, ParseCIDR(item["network"].v))
    [] op = "fetchSubnetOfBlock" ->
         \/ ~HasText(item, "network")
         \/ ParseCIDR(item["network"].v) = Nothing
         \/ IpMatchThrows(ParseCIDR(item["network"].v).addr, arg)
    [] op = "fetchRange" -> TRUE  \* IpRange has no method equals: TypeError
    [] op = "fetchRangeByIp" -> item["range"].v.first.kind # arg.kind
    [] op = "fetchRangeOfSubnet" -> IpMatchThrows(item["range"].v.first, arg)
    [] OTHER -> FALSE
\* and whether it returns true
LookupHit(op, arg, item) ==
  CASE op = "fetchIp" -> HasText(item, "ip") /\ item["ip"].v = IpToString(arg)
    [] op = "fetchIpByName" -> FetchIpByNameHit(item, arg)
    [] op = "fetchIpOfRange" -> Match(arg, Process(item["ip"].v))
    [] op = "fetchRange" -> FALSE
    [] op = "fetchRangeByIp" -> Match(item["range"].v, arg)
    [] op = "fetchRangeOfSubnet" -> IpMatch(item["range"].v.first, arg)
    [] op = "fetchSubnet" ->
         HasText(item, "network") /\ item["network"].v = StringOf(arg)
    [] op \in {"fetchSubnetByIp", "fetchBlockByIp"} ->
         IpMatch(arg, ParseCIDR(item["network"].v))
    [] op = "fetchSubnetOfBlock" -> IpMatch(ParseCIDR(item["network"].v).addr, arg)

FindOps == {"fetchIp", "fetchRange", "fetchRangeByIp", "fetchSubnet",
            "fetchSubnetByIp", "fetchBlockByIp"}
FilterOps == {"fetchIpByName", "fetchIpOfRange", "fetchRangeOfSubnet",
              "fetchSubnetOfBlock"}

\* response.find(callback): the first item the callback accepts, undefined
\* when there is none; the promise rejects when the callback throws first
FindLast(call, seq) ==
  LET bad == {i \in DOMAIN seq : LookupThrows(call.op, call.arg, seq[i])}
      hits == {i \in DOMAIN seq : /\ ~LookupThrows(call.op, call.arg, seq[i])
                                  /\ LookupHit(call.op, call.arg, seq[i])}
  IN  IF bad # {} THEN Rejected
      ELSE IF hits = {} THEN Fulfilled(Undefined)
      ELSE Fulfilled(seq[Max(hits)])
Find(call, seq) ==
  LET bad == {i \in DOMAIN seq : LookupThrows(call.op, call.arg, seq[i])}
      hits == {i \in DOMAIN seq : /\ ~LookupThrows(call.op, call.arg, seq[i])
                                  /\ LookupHit(call.op, call.arg, seq[i])}
  IN  IF bad # {} /\ (hits = {} \/ Min(bad) < Min(hits)) THEN Rejected
      ELSE IF hits = {} THEN Fulfilled(Undefined)
      ELSE Fulfilled(seq[Min(hits)])
\* response.filter(callback)
Filter(call, seq) ==
  IF \E i \in DOMAIN seq : LookupThrows(call.op, call.arg, seq[i]) THEN Rejected
  ELSE Fulfilled(SelectSeq(seq, LAMBDA item : LookupHit(call.op, call.arg, item)))

\* IPAM.fetchIp, fetchIpOfRange, fetchRange, fetchRangeByIp,
\* fetchRangeOfSubnet, fetchSubnet, fetchSubnetByIp, fetchSubnetOfBlock and
\* fetchBlockByIp: the collection of the argument's IP version, searched
Lookup(call, id, arr) ==
  LET all == FetchAll(call, id, arr)
  IN  IF all.state # "fulfilled" THEN all
      ELSE IF call.op \in FindOps THEN Find(call, all.value)
      ELSE Filter(call, all.value)

\* A call that throws before it returns a promise: IPAM.fetchIpOfRange
\* reads range.first, which the pair of ipaddr.parseCIDR does not have, and
\* IPAM.ipVersion(undefined) is a TypeError
Thrown == [state |-> "thrown"]
CallThrows(call) == call.op = "fetchIpOfRange" /\ call.arg.cls # "IpRange"

\* The promise an IPAM call returns, given the results arrived so far
CallResult(call, id, arr) ==
  CASE call.op \in {"fetch", "fetchCollection"} -> FetchCollection(call, id, arr)
    [] call.op \in {"fetchIpAll", "fetchRangeAll", "fetchSubnetAll",
                    "fetchBlockAll"} -> FetchAll(call, id, arr)
    [] call.op \in FindOps \cup FilterOps -> Lookup(call, id, arr)

\* IPAM calls, given as call id -> call: their HTTP requests are sent
MakeCalls(new) ==
  /\ calls' = calls @@ new
  /\ inflight' = inflight \cup {r \in (DOMAIN new) \X Versions :
                                   r[2] \in RequestedVersions(new[r[1]])}
  /\ settled' = settled @@ [id \in DOMAIN new |-> Pending]
  /\ UNCHANGED <<server, arrived>>
MakeCall(id, call) == MakeCalls(id :> call)

\* The response to one request arrives and the promise chain of IPAM.fetch
\* runs; a promise settles once
Respond(id, v) ==
  /\ <<id, v>> \in inflight
  /\ inflight' = inflight \ {<<id, v>>}
  /\ arrived' = Append(arrived, [id |-> id, v |-> v,
                                 res |-> Fetch(server[<<v, calls[id].file>>])])
  /\ settled' = [settled EXCEPT ![id] =
                   IF @.state = "pending" THEN CallResult(calls[id], id, arrived')
                   ELSE @]
  /\ UNCHANGED <<server, calls>>

(***************************************************************************)
(* Search (_webpack/search.js).                                            *)
(***************************************************************************)
\* new RegExp(query, 'i'), for a pattern of literal characters, '.' and '(':
\* a '(' opens a group that nothing closes, which is a SyntaxError
PatternThrows(query) == \E i \in DOMAIN query : query[i] = "("

\* One pattern character against one character, ignoring case
CharMatches(p, c) == p = "." \/ ToUpperCase(<<p>>) = ToUpperCase(<<c>>)
MatchesAt(str, i, query) ==
  /\ i + Len(query) - 1 <= Len(str)
  /\ \A k \in DOMAIN query : CharMatches(query[k], str[i + k - 1])
\* The index of the leftmost match, 0 when there is none
MatchIndex(str, query) ==
  LET at == {i \in 1..(Len(str) + 1) : MatchesAt(str, i, query)}
  IN  IF at = {} THEN 0 ELSE Min(at)

SpanOpen ==
  <<"<", "s", "p", "a", "n", " ", "c", "l", "a", "s", "s", "=", "\"",
    "b", "g", "-", "w", "a", "r", "n", "i", "n", "g", " ", "t", "e",
    "x", "t", "-", "d", "a", "r", "k", "\"", ">">>
SpanClose ==
  <<"<", "/", "s", "p", "a", "n", ">">>
LineBreak ==
  <<"<", "b", "r", "/", ">">>

\* v.replace(expr, '<span class="bg-warning text-dark">$&</span>')
Highlight(str, query) ==
  LET i == MatchIndex(str, query)
  IN  SubSeq(str, 1, i - 1) \o SpanOpen \o SubSeq(str, i, i + Len(query) - 1)
        \o SpanClose \o SubSeq(str, i + Len(query), Len(str))

\* String(v) of a JSON value
StringOfValue(v) == IF v.t = "number" THEN NatToString(v.v) ELSE v.v

\* match(v) of Search.search: undefined for a missing or empty value and
\* null for one that does not match (both <<>> here), else the highlighted
\* text
Truthy(data, key) ==
  /\ key \in DOMAIN data
  /\ data[key].v # (IF data[key].t = "number" THEN 0 ELSE <<>>)
MatchField(data, key, query) ==
  IF ~Truthy(data, key) THEN <<>>
  ELSE IF MatchIndex(StringOfValue(data[key]), query) = 0 THEN <<>>
  ELSE Highlight(data[key].v, query)
\* match(v) throws: the pattern is no regular expression, or a number
\* matches, which has no replace method
MatchFieldThrows(data, key, query) ==
  /\ Truthy(data, key)
  /\ \/ PatternThrows(query)
     \/ /\ data[key].t # "string"
        /\ MatchIndex(StringOfValue(data[key]), query) # 0

SearchFields ==
  <<"name", "type", "asset", "serial", "site", "scope", "owner", "description">>

\* data['res'] of Search.search
SearchRes(data, query) ==
  SelectSeq([k \in DOMAIN SearchFields |-> MatchField(data, SearchFields[k], query)],
            LAMBDA x : x # <<>>)
SearchResThrows(data, query) ==
  \E k \in DOMAIN SearchFields : MatchFieldThrows(data, SearchFields[k], query)

\* Search.toSearchResult, of a record with its type of Search.toSearchData
TypeMap(type) ==
  IF type = "ip"
  THEN [title |-> "IP", index |-> "ip", link |-> "/lookup/ip.html"]
  ELSE [title |-> "Block", index |-> "network", link |-> "/lookup/block.html"]
ToSearchResult(type, data, res) ==
  LET name == IF TypeMap(type).index \in DOMAIN data
              THEN data[TypeMap(type).index] ELSE Undefined
  IN  [type |-> TypeMap(type).title,
       name |-> name,
       link |-> ToResourceUrl(TypeMap(type).link,
                              IF name = Undefined
                              THEN <<"u", "n", "d", "e", "f", "i", "n", "e", "d">>
                              ELSE StringOfValue(name)),
       data |-> Join(res, LineBreak)]

\* Search.search(query), once IPAM.fetchIpAll() and IPAM.fetchBlockAll()
\* have both resolved
SearchSearch(ipAll, blockAll, query) ==
  LET all == [i \in DOMAIN ipAll |-> [type |-> "ip", data |-> ipAll[i]]]
               \o [i \in DOMAIN blockAll |-> [type |-> "block", data |-> blockAll[i]]]
      hit == SelectSeq(all, LAMBDA e : SearchRes(e.data, query) # <<>>)
  IN  IF \E i \in DOMAIN all : SearchResThrows(all[i].data, query) THEN Rejected
      ELSE Fulfilled([i \in DOMAIN hit |->
                        ToSearchResult(hit[i].type, hit[i].data,
                                       SearchRes(hit[i].data, query))])

(***************************************************************************)
(* Page (_webpack/page.js). The page is the record of what the functions   *)
(* of Page write: the document title, the content of elements, their       *)
(* classes d-none and d-block, the rows of the tables and the href of the  *)
(* lookup button. Element ids are tuples: 'card-ip-data' is                *)
(* <<"card", "ip", "data">> and 'ipam.ip.name' is <<"ipam", "ip", "name">>. *)
(***************************************************************************)
Dom ==
  [title |-> title, content |-> content, classList |-> classList,
   rows |-> rows, href |-> href]

\* Page.hide and Page.show
Hide(d, id) ==
  [d EXCEPT !.classList[id] = (@ \ {"d-block"}) \cup {"d-none"}]
Show(d, id) ==
  [d EXCEPT !.classList[id] = (@ \ {"d-none"}) \cup {"d-block"}]

\* String(value) of what the records hold
StringOfAny(v) ==
  IF v = Undefined THEN <<"u", "n", "d", "e", "f", "i", "n", "e", "d">>
  ELSE IF v.t = "number" THEN NatToString(v.v)
  ELSE IF v.t = "IpRange" THEN RangeToString(v.v)
  ELSE v.v

\* Page.setContent: the element shows the value, as text or as the text of
\* an anchor
SetContent(d, id, value) ==
  [d EXCEPT !.content = (id :> value) @@ @]

\* Page.setTitle
TitlePrefix == <<"I", "P", "A", "M", " ", "|", " ">>
SetTitle(d, text) ==
  SetContent([d EXCEPT !.title = TitlePrefix \o text], <<"title">>, S(text))

\* Page.error
ErrorKeepsContent(d, message, withTitle) ==
  Show(SetContent(IF withTitle THEN SetTitle(d, <<"E", "r", "r", "o", "r">>) ELSE d,
                  <<"error.message">>, S(message)),
       <<"error">>)
Error(d, message, withTitle) ==
  Show(Hide(SetContent(IF withTitle THEN SetTitle(d, <<"E", "r", "r", "o", "r">>)
                       ELSE d,
                       <<"error.message">>, S(message)),
            <<"content">>),
       <<"error">>)

\* The loop of Page.fillCard over the keys of data
SetContents(d, card, data) ==
  [d EXCEPT !.content =
     [id \in {<<"ipam", card, key>> : key \in DOMAIN data} |-> data[id[3]]] @@ @]

\* Page.fillCard
FillCardWaitsForData(d, card, data) ==
  IF data # Undefined
  THEN Hide(Show(SetContents(d, card, data), <<"card", card, "data">>),
            <<"card", card, "spinner">>)
  ELSE d
FillCard(d, card, data) ==
  Hide(IF data # Undefined
       THEN Show(SetContents(d, card, data), <<"card", card, "data">>)
       ELSE d,
       <<"card", card, "spinner">>)

\* str.replace('%{ip}', by): the first occurrence is replaced
IpPlaceholder == <<"%", "{", "i", "p", "}">>
ReplaceFirst(str, sub, by) ==
  LET at == {i \in DOMAIN str : /\ i + Len(sub) - 1 <= Len(str)
                                /\ SubSeq(str, i, i + Len(sub) - 1) = sub}
  IN  IF at = {} THEN str
      ELSE SubSeq(str, 1, Min(at) - 1) \o by
             \o SubSeq(str, Min(at) + Len(sub), Len(str))

\* Page.fillSubnet; the ranges table is hidden where the page has one
FillSubnetAfterOthers(d, data, addr) ==
  LET filled == FillCard(d, "subnet", data)
  IN  IF data # Undefined /\ "lookup_url" \in DOMAIN data
         /\ \E id \in DOMAIN d.classList :
              id[Len(id)] = "data" /\ id[2] # "subnet" /\ "d-block" \in d.classList[id]
      THEN Show([filled EXCEPT !.href =
                   ReplaceFirst(data["lookup_url"].v, IpPlaceholder, addr)],
                <<"ip-lookup">>)
      ELSE filled
FillSubnet(d, data, addr) ==
  LET filled == FillCard(d, "subnet", data)
  IN  IF data # Undefined /\ "lookup_url" \in DOMAIN data
      THEN LET shown == Show([filled EXCEPT !.href =
                                ReplaceFirst(data["lookup_url"].v, IpPlaceholder, addr)],
                             <<"ip-lookup">>)
           IN  IF <<"ipam.table", "range">> \in DOMAIN d.classList
               THEN Hide(shown, <<"ipam.table", "range">>)
               ELSE shown
      ELSE filled

\* Page.setUtilization
SetUtilization(p) ==
  [width |-> p,
   class |-> IF p < 75 THEN "bg-success"
             ELSE IF p < 90 THEN "bg-warning" ELSE "bg-danger"]

\* Page.drawGraph
DrawGraph(d, card, p) ==
  Hide(IF p # Null /\ p.t = "number"
       THEN Show(SetContent(d, <<"ipam", card, "graph">>,
                            Obj("progress", SetUtilization(p.v))),
                 <<"card", card, "graph">>)
       ELSE d,
       <<"card", card, "spinner">>)

\* Page.addTableRows, for a table with the header fields and the link of the
\* table element
TableRow(table, item) ==
  [cells |-> [k \in DOMAIN table.fields |->
                LET field == table.fields[k]
                IN  IF field \in {"percentAssigned", "percentUtilized"}
                       /\ field \in DOMAIN item
                    THEN Obj("progress", SetUtilization(item[field].v))
                    ELSE IF field \in DOMAIN item THEN item[field] ELSE S(<<>>)],
   lnk |-> IF "link" \in DOMAIN item THEN item["link"]
           ELSE ToResourceUrl(table.link,
                              StringOfAny(IF table.linkField \in DOMAIN item
                                          THEN item[table.linkField]
                                          ELSE Undefined))]
AddTableRowsOnTop(d, name, table, data) ==
  [d EXCEPT !.rows[name] = [i \in DOMAIN data |-> TableRow(table, data[i])] \o @]
AddTableRows(d, name, table, data) ==
  [d EXCEPT !.rows[name] = @ \o [i \in DOMAIN data |-> TableRow(table, data[i])]]

(***************************************************************************)
(* SpecRange: IpRange.match applied to pooled ranges and addresses.        *)
(***************************************************************************)
Octets == 0..MaxOctet
V4Pool == {IPv4(<<10, a, b, c>>) : a, b, c \in Octets}
\* 16 bit parts whose high and low bytes both vary
PartVals == {0, 1, 256, 257}
V6Pool == {IPv6(<<8193, 0, 0, 0, 0, 0, p, q>>) : p, q \in PartVals}

RangeInit ==
  /\ \E pool \in {V4Pool, V6Pool} :
       /\ range \in {IpRange(f, l) : f, l \in pool}
       /\ ip \in pool
  /\ matched = "unset"
  /\ QueryIdle /\ FetchIdle /\ SearchIdle /\ PageIdle

\* r.match(ip)
DoMatch ==
  /\ matched = "unset"
  /\ matched' = IF Match(range, ip) THEN "true" ELSE "false"
  /\ UNCHANGED <<range, ip>>
  /\ UNCHANGED <<queryVars, fetchVars, searchVars, pageVars>>

NextRange == DoMatch
SpecRange == RangeInit /\ [][NextRange]_vars

(***************************************************************************)
(* SpecQuery: a search form submit (Search.handleSearchForm) and the load  *)
(* of the page it redirects to (Query.constructor).                        *)
(***************************************************************************)
\* The addresses the pooled query texts are written from
QueryIps == {IPv4(<<10, 0, 0, 1>>), IPv4(<<10, 0, 0, 9>>), IPv4(<<192, 168, 255, 0>>)}
IpTexts == {IpToString(a) : a \in QueryIps}
BadIpText == <<"2", "5", "6", ".", "0", ".", "0", ".", "1">>
PrefixLengths == {0, 24, 32}

\* The pooled texts, each with the query the text stands for
IpCases == {[text |-> IpToString(a), expect |-> a] : a \in QueryIps}
OddIpCases ==
  { [text |-> <<"0", "1", "0", ".", "0", ".", "0", ".", "1">>,
     expect |-> IPv4(<<8, 0, 0, 1>>)],
    [text |-> <<"2", "5", "9">>, expect |-> IPv4(<<0, 0, 1, 3>>)],
    [text |-> BadIpText, expect |-> Str(BadIpText)],
    [text |-> <<"1", "0", ".", ".", "0", ".", "1">>,
     expect |-> Str(<<"1", "0", ".", ".", "0", ".", "1">>)],
    [text |-> <<"1", "0", ".", "0", ".", "0", ".", "1", ".", "2">>,
     expect |-> Str(<<"1", "0", ".", "0", ".", "0", ".", "1", ".", "2">>)] }
RangeCases ==
  {[text |-> IpToString(a) \o <<"-">> \o IpToString(b),
    expect |-> IpRange(a, b)] : a, b \in QueryIps}
NotRangeCases ==
  {[text |-> t, expect |-> Str(t)] :
     t \in {a \o sep \o b : a, b \in IpTexts, sep \in {<<" ", "-", " ">>, <<"-", "-">>}}
           \cup {a \o <<"-">> \o BadIpText : a \in IpTexts}
           \cup {a \o <<"-">> : a \in IpTexts}
           \cup {a \o <<"-">> \o a \o <<"-">> \o a : a \in IpTexts}}
CidrCases ==
  {[text |-> IpToString(a) \o <<"/">> \o NatToString(n),
    expect |-> Subnet(a, n)] : a \in QueryIps, n \in PrefixLengths}
  \cup {[text |-> IpToString(a) \o <<"/", "0", "2", "4">>,
         expect |-> Subnet(a, 24)] : a \in QueryIps}
NotCidrCases ==
  {[text |-> t, expect |-> Str(t)] :
     t \in {a \o <<"/">> \o n : a \in IpTexts,
                             n \in {<<"3", "3">>, <<>>, <<"a">>, <<"2", "4", "/">>}}
           \cup {BadIpText \o <<"/", "2", "4">>, <<"/", "2", "4">>}}
PaddedCases ==
  {[text |-> pad[1] \o t \o pad[2], expect |-> Str(t)] :
     t \in IpTexts \cup {c.text : c \in RangeCases \cup CidrCases},
     pad \in {<<<<" ">>, <<>> >>, <<<<>>, <<" ">> >>, <<<<" ", " ">>, <<" ">> >>}}
TextCases ==
  { [text |-> <<>>, expect |-> Str(<<>>)],
    [text |-> <<" ">>, expect |-> Str(<<>>)],
    [text |-> <<"a", "b", "c">>, expect |-> Str(<<"a", "b", "c">>)],
    [text |-> <<" ", "a", " ", "b", " ">>, expect |-> Str(<<"a", " ", "b">>)],
    [text |-> <<"a", "-", "b">>, expect |-> Str(<<"a", "-", "b">>)],
    [text |-> <<"a", "/", "1">>, expect |-> Str(<<"a", "/", "1">>)],
    [text |-> <<"a", "+", "b", "&", "q", "=", "c">>,
     expect |-> Str(<<"a", "+", "b", "&", "q", "=", "c">>)],
    [text |-> <<"1", "0", "0", "%", "2", "0">>,
     expect |-> Str(<<"1", "0", "0", "%", "2", "0">>)] }
QueryCases ==
  IpCases \cup OddIpCases \cup RangeCases \cup NotRangeCases \cup CidrCases
  \cup NotCidrCases \cup PaddedCases \cup TextCases

QueryInit ==
  /\ formInput \in {c.text : c \in QueryCases}
  /\ formQuery = NoQuery
  /\ location = [path |-> "/index.html", search |-> <<>>]
  /\ global = NoQuery
  /\ qpc = "form"
  /\ RangeIdle /\ FetchIdle /\ SearchIdle /\ PageIdle

\* Search.handleSearchForm
HandleSearchForm ==
  /\ qpc = "form"
  /\ LET query == Parse(formInput)
     IN  /\ formQuery' = query
         /\ location' = ToResourceUrl(GetResourceTypeUrl(query),
                                      EncodeURIComponent(StringOf(query)))
  /\ qpc' = "redirected"
  /\ UNCHANGED <<formInput, global>>
  /\ UNCHANGED <<rangeVars, fetchVars, searchVars, pageVars>>

\* Query.constructor, run when the page at window.location loads
QueryGlobal(search) ==
  LET q == SearchParamQ(search)
  IN  IF q = Null THEN Null ELSE Parse(q.chars)
QueryConstructor ==
  /\ qpc = "redirected"
  /\ global' = QueryGlobal(location.search)
  /\ qpc' = "loaded"
  /\ UNCHANGED <<formInput, formQuery, location>>
  /\ UNCHANGED <<rangeVars, fetchVars, searchVars, pageVars>>

NextQuery == HandleSearchForm \/ QueryConstructor
SpecQuery == QueryInit /\ [][NextQuery]_vars

(***************************************************************************)
(* SpecFetch: one call of IPAM.fetch, IPAM.fetchCollection or one of the   *)
(* fetch...All functions, against pooled API files.                        *)
(***************************************************************************)
\* Texts with the characters IPAM.sanitizeValues escapes
TextLt == <<"<", "b", ">">>
TextAmp == <<"x", "&", "y", "&", "&">>
TextQuot == <<"\"", "q", "\"", "<">>
TextEntity == <<"&", "l", "t", ";", "&", "a", "m", "p", ";">>
TextLookup == LookupPrefix \o <<"/", "l", "?", "a", "=", "<", "&", "i", "p", "=">>
TextIp1 == <<"1", "0", ".", "0", ".", "0", ".", "1">>
TextIp9 == <<"1", "0", ".", "0", ".", "0", ".", "9">>
TextNet8 == <<"1", "0", ".", "0", ".", "0", ".", "0", "/", "8">>
TextNet24 == <<"1", "9", "2", ".", "1", "6", "8", ".", "2", "5", "5", ".", "0", "/", "2", "4">>
TextIp6a == <<":", ":", "1">>
TextIp6b == <<":", ":", "2">>
TextNet6 == <<":", ":", "/", "0">>
TextMac == <<"a", "a", "-", "0", "b", "-", "<">>
TextDate == <<"2", "0", "2", "0", "-", "0", "1", "-", "0", "1">>

\* The records an API file may hold (IPv6 range records are left out: the
\* IPv6 text of ip_first and ip_last is not modelled)
FileRecords(v, file) ==
  CASE v = "v4" /\ file = "ip.json" ->
         { [ip |-> S(TextIp1), name |-> S(TextLt), mac |-> S(TextMac)],
           [ip |-> S(TextIp9), name |-> S(TextAmp), description |-> S(TextQuot),
            assigned |-> S(TextDate)] }
    [] v = "v6" /\ file = "ip.json" ->
         { [ip |-> S(TextIp6a), name |-> S(TextEntity)],
           [ip |-> S(TextIp6b), owner |-> S(TextAmp), asset |-> N(7)] }
    [] v = "v4" /\ file = "range.json" ->
         { [ip_first |-> S(TextIp1), ip_last |-> S(TextIp9), name |-> S(TextLt),
            percentUtilized |-> N(50)],
           [ip_first |-> S(TextIp9), ip_last |-> S(TextIp9),
            description |-> S(TextAmp)] }
    [] v = "v6" /\ file = "range.json" -> {}
    [] v = "v4" /\ file = "subnet.json" ->
         { [network |-> S(TextNet8), owner |-> S(TextLookup), name |-> S(TextQuot)],
           [network |-> S(TextNet24), owner |-> S(TextLt)] }
    [] v = "v6" /\ file = "subnet.json" ->
         { [network |-> S(TextNet6), owner |-> S(TextAmp)] }
    [] v = "v4" /\ file = "block.json" ->
         { [network |-> S(TextNet8), description |-> S(TextLt)],
           [network |-> S(TextNet24), description |-> S(TextEntity),
            received |-> S(TextDate)] }
    [] v = "v6" /\ file = "block.json" ->
         { [network |-> S(TextNet6), description |-> S(TextQuot)] }

NotFound == [status |-> 404]
ServerError == [status |-> 500]
Ok(body) == [status |-> 200, body |-> body]

SeqsUpTo(set, n) == UNION {[1..k -> set] : k \in 0..n}
Responses(v, file) ==
  {NotFound, ServerError} \cup {Ok(b) : b \in SeqsUpTo(FileRecords(v, file), MaxRecords)}

FetchInit ==
  /\ \E file \in Files :
       \E r4 \in Responses("v4", file), r6 \in Responses("v6", file) :
         server = [vf \in Versions \X Files |->
                     IF vf[2] # file THEN NotFound
                     ELSE IF vf[1] = "v4" THEN r4 ELSE r6]
  /\ calls = <<>> /\ inflight = {} /\ arrived = <<>> /\ settled = <<>>
  /\ RangeIdle /\ QueryIdle /\ SearchIdle /\ PageIdle

\* IPAM.fetch(ipVersion, file)
IpamFetch ==
  /\ calls = <<>>
  /\ \E v \in Versions, file \in Files :
       MakeCall("call", [op |-> "fetch", file |-> file, version |-> v])
  /\ UNCHANGED <<rangeVars, queryVars, searchVars, pageVars>>

\* IPAM.fetchCollection(file, version)
IpamFetchCollection ==
  /\ calls = <<>>
  /\ \E v \in Versions \cup {"null"}, file \in Files :
       MakeCall("call", [op |-> "fetchCollection", file |-> file, version |-> v])
  /\ UNCHANGED <<rangeVars, queryVars, searchVars, pageVars>>

\* IPAM.fetchIpAll(version)
IpamFetchIpAll ==
  /\ calls = <<>>
  /\ \E v \in Versions \cup {"null"} :
       MakeCall("call", [op |-> "fetchIpAll", file |-> "ip.json", version |-> v])
  /\ UNCHANGED <<rangeVars, queryVars, searchVars, pageVars>>

\* IPAM.fetchRangeAll(version)
IpamFetchRangeAll ==
  /\ calls = <<>>
  /\ \E v \in Versions \cup {"null"} :
       MakeCall("call", [op |-> "fetchRangeAll", file |-> "range.json", version |-> v])
  /\ UNCHANGED <<rangeVars, queryVars, searchVars, pageVars>>

\* IPAM.fetchSubnetAll(version)
IpamFetchSubnetAll ==
  /\ calls = <<>>
  /\ \E v \in Versions \cup {"null"} :
       MakeCall("call", [op |-> "fetchSubnetAll", file |-> "subnet.json", version |-> v])
  /\ UNCHANGED <<rangeVars, queryVars, searchVars, pageVars>>

\* IPAM.fetchBlockAll(version)
IpamFetchBlockAll ==
  /\ calls = <<>>
  /\ \E v \in Versions \cup {"null"} :
       MakeCall("call", [op |-> "fetchBlockAll", file |-> "block.json", version |-> v])
  /\ UNCHANGED <<rangeVars, queryVars, searchVars, pageVars>>

\* A response arrives
FetchRespond ==
  /\ \E r \in inflight : Respond(r[1], r[2])
  /\ UNCHANGED <<rangeVars, queryVars, searchVars, pageVars>>

NextFetch ==
  \/ IpamFetch \/ IpamFetchCollection \/ IpamFetchIpAll \/ IpamFetchRangeAll
  \/ IpamFetchSubnetAll \/ IpamFetchBlockAll \/ FetchRespond
SpecFetch == FetchInit /\ [][NextFetch]_vars

(***************************************************************************)
(* SpecSearch: one call of Search.search against pooled ip.json and        *)
(* block.json files of both IP versions.                                   *)
(***************************************************************************)
TextAb == <<"a", "b">>
TextXb == <<"X", "b", "c">>
TextAandB == <<"a", "&", "b">>
TextGroup == <<"A", "B", "(", "c">>
TextZz == <<"z", "z">>
TextAdashB == <<"a", "-", "b">>

SearchRecords(v, file) ==
  CASE v = "v4" /\ file = "ip.json" ->
         { [ip |-> S(TextIp1), name |-> S(TextAb), owner |-> S(TextGroup),
            mac |-> S(TextMac)],
           [ip |-> S(TextIp9), name |-> S(TextXb), description |-> S(TextAandB),
            type |-> S(TextAb)] }
    [] v = "v6" /\ file = "ip.json" ->
         { [ip |-> S(TextIp6a), serial |-> S(TextAb), site |-> S(TextZz)] }
    [] v = "v4" /\ file = "block.json" ->
         { [network |-> S(TextNet8), description |-> S(TextAdashB),
            changed |-> S(TextDate)],
           [network |-> S(TextNet24), owner |-> S(TextZz), scope |-> S(TextXb),
            percentUtilized |-> N(50)] }
    [] v = "v6" /\ file = "block.json" ->
         { [network |-> S(TextNet6), asset |-> S(TextAb)] }

SearchResponses(v, file) ==
  IF v = "v4"
  THEN {NotFound, ServerError}
         \cup {Ok(b) : b \in SeqsUpTo(SearchRecords(v, file), MaxSearchRecords)}
  ELSE {NotFound} \cup {Ok(<<r>>) : r \in SearchRecords(v, file)}

\* The queries: plain text in both cases, a '.', an '&', the empty query,
\* text that no record holds and text with a '('
SearchQueries ==
  { TextAb, <<"A", "B">>, <<"a", ".", "b">>, TextZz, <<"a", "m", "p">>, <<>>,
    <<"b", "(">> }

SearchInit ==
  /\ \E i4 \in SearchResponses("v4", "ip.json"),
        i6 \in SearchResponses("v6", "ip.json"),
        b4 \in SearchResponses("v4", "block.json"),
        b6 \in SearchResponses("v6", "block.json") :
       server = [vf \in Versions \X Files |->
                   CASE vf = <<"v4", "ip.json">> -> i4
                     [] vf = <<"v6", "ip.json">> -> i6
                     [] vf = <<"v4", "block.json">> -> b4
                     [] vf = <<"v6", "block.json">> -> b6
                     [] OTHER -> NotFound]
  /\ calls = <<>> /\ inflight = {} /\ arrived = <<>> /\ settled = <<>>
  /\ SearchIdle
  /\ RangeIdle /\ QueryIdle /\ PageIdle

\* Search.search(query): IPAM.fetchIpAll() and IPAM.fetchBlockAll() are called
SearchCall ==
  /\ calls = <<>>
  /\ \E q \in SearchQueries : searchQuery' = q
  /\ results' = Pending
  /\ MakeCalls(("ip" :> [op |-> "fetchIpAll", file |-> "ip.json", version |-> "null"])
               @@ ("block" :> [op |-> "fetchBlockAll", file |-> "block.json",
                               version |-> "null"]))
  /\ UNCHANGED <<rangeVars, queryVars, pageVars>>

\* A response arrives; Promise.all rejects with the first of the two
\* collections that rejects and resolves when both have resolved
SearchRespond ==
  /\ \E r \in inflight : Respond(r[1], r[2])
  /\ results' =
       IF results.state # "pending" THEN results
       ELSE IF \E id \in {"ip", "block"} : settled'[id].state = "rejected"
       THEN Rejected
       ELSE IF \A id \in {"ip", "block"} : settled'[id].state = "fulfilled"
       THEN SearchSearch(settled'["ip"].value, settled'["block"].value, searchQuery)
       ELSE Pending
  /\ UNCHANGED <<searchQuery, rangeVars, queryVars, pageVars>>

NextSearch == SearchCall \/ SearchRespond
SpecSearch == SearchInit /\ [][NextSearch]_vars

(***************************************************************************)
(* SpecPage: one page load. The page at window.location constructs the     *)
(* Query and calls its site function (main.js); the responses to the       *)
(* fetches it starts arrive in any order. Each arrival runs the promise    *)
(* chain and the callback of the site function in one step.                *)
(***************************************************************************)
MessageIp ==
  <<"T", "h", "e", " ", "g", "i", "v", "e", "n", " ", "q", "u", "e", "r",
    "y", " ", "s", "t", "r", "i", "n", "g", " ", "i", "s", " ", "n", "o",
    "t", " ", "a", " ", "v", "a", "l", "i", "d", " ", "I", "P", " ", "a",
    "d", "d", "r", "e", "s", "s", ".">>
MessageRange ==
  <<"T", "h", "e", " ", "g", "i", "v", "e", "n", " ", "q", "u", "e", "r",
    "y", " ", "s", "t", "r", "i", "n", "g", " ", "i", "s", " ", "n", "o",
    "t", " ", "a", " ", "v", "a", "l", "i", "d", " ", "I", "P", " ", "r",
    "a", "n", "g", "e", ".">>
MessageSubnet ==
  <<"T", "h", "e", " ", "g", "i", "v", "e", "n", " ", "q", "u", "e", "r",
    "y", " ", "s", "t", "r", "i", "n", "g", " ", "i", "s", " ", "n", "o",
    "t", " ", "a", " ", "v", "a", "l", "i", "d", " ", "s", "u", "b", "n",
    "e", "t", " ", "i", "n", " ", "C", "I", "D", "R", " ", "f", "o", "r",
    "m", "a", "t", ".">>

\* The pages and what their templates hold: the cards, the tables with
\* their header fields and links, and the classes the elements start with
PagePaths ==
  {"/lookup/ip.html", "/lookup/range.html", "/lookup/subnet.html",
   "/lookup/block.html"}
PageCards(path) ==
  CASE path = "/lookup/ip.html" -> {"ip", "range", "subnet"}
    [] path = "/lookup/range.html" -> {"range", "subnet", "utilization"}
    [] path = "/lookup/subnet.html" -> {"subnet", "block", "utilization"}
    [] path = "/lookup/block.html" -> {}
PageTable(path) ==
  CASE path \in {"/lookup/ip.html", "/lookup/range.html"} -> "ip"
    [] path = "/lookup/subnet.html" -> "range"
    [] path = "/lookup/block.html" -> "subnet"
TableTemplate(name) ==
  CASE name = "ip" ->
         [fields |-> <<"ip", "name", "description">>,
          link |-> "/lookup/ip.html", linkField |-> "ip"]
    [] name = "range" ->
         [fields |-> <<"range", "name", "percentUtilized">>,
          link |-> "/lookup/range.html", linkField |-> "range"]
    [] name = "subnet" ->
         [fields |-> <<"network", "name", "percentUtilized">>,
          link |-> "/lookup/subnet.html", linkField |-> "network"]
PageElements(path) ==
  {<<"content">>, <<"error">>}
    \cup {<<"card", c, IF c = "utilization" THEN "graph" ELSE "data">> :
            c \in PageCards(path)}
    \cup {<<"card", c, "spinner">> : c \in PageCards(path)}
    \cup (IF path = "/lookup/block.html" THEN {} ELSE {<<"ip-lookup">>})
    \cup (IF path = "/lookup/subnet.html" THEN {<<"ipam.table", "range">>} ELSE {})
Template(path) ==
  [id \in PageElements(path) |->
     IF id \in {<<"content">>, <<"ipam.table", "range">>} \/ id[Len(id)] = "spinner"
     THEN {} ELSE {"d-none"}]

\* The API files of the page: IPv4 files of at most MaxPageRecords records
TextLookupUrl == LookupPrefix \o <<"/", "l", "?", "i", "=">> \o IpPlaceholder
TextRange19 == <<"?", "q", "=">> \o TextIp1 \o <<"-">> \o TextIp9
PageRecords(file) ==
  CASE file = "ip.json" ->
         { [ip |-> S(TextIp1), name |-> S(TextAb), mac |-> S(TextMac)],
           [ip |-> S(TextIp9), description |-> S(TextLt)] }
    [] file = "range.json" ->
         { [ip_first |-> S(TextIp1), ip_last |-> S(TextIp9), name |-> S(TextAmp),
            percentUtilized |-> N(80)],
           [ip_first |-> S(TextIp9), ip_last |-> S(TextIp9)] }
    [] file = "subnet.json" ->
         { [network |-> S(TextNet8), owner |-> S(TextLookupUrl),
            percentUtilized |-> N(95)],
           [network |-> S(TextNet24), name |-> S(TextAb)] }
    [] file = "block.json" ->
         { [network |-> S(TextNet8), description |-> S(TextQuot)],
           [network |-> S(TextNet24), received |-> S(TextDate)] }
PageFiles(path) ==
  CASE path = "/lookup/ip.html" -> {"ip.json", "range.json", "subnet.json"}
    [] path = "/lookup/range.html" -> {"ip.json", "range.json", "subnet.json"}
    [] path = "/lookup/subnet.html" -> {"range.json", "subnet.json", "block.json"}
    [] path = "/lookup/block.html" -> {"subnet.json"}
PageResponses(path, file) ==
  IF file \in PageFiles(path)
  THEN {NotFound, ServerError}
         \cup {Ok(b) : b \in SeqsUpTo(PageRecords(file), MaxPageRecords)}
  ELSE {NotFound}

\* The IPv6 file of IP addresses, which the IP page reads for the other
\* addresses of a name, is missing or holds one record
PageResponsesV6(path) ==
  IF path = "/lookup/ip.html"
  THEN {NotFound, Ok(<<[ip |-> S(TextIp6a), name |-> S(TextAb)]>>)}
  ELSE {NotFound}

\* The search parts of window.location: none, two IP addresses, a range,
\* a subnet and plain text
PageSearches ==
  { <<>>,
    <<"?", "q", "=">> \o TextIp1,
    <<"?", "q", "=">> \o TextIp9,
    TextRange19,
    <<"?", "q", "=">> \o TextNet8,
    <<"?", "q", "=">> \o TextAb }

PageInit ==
  /\ \E path \in PagePaths, search \in PageSearches :
       /\ location = [path |-> path, search |-> search]
       /\ global = QueryGlobal(search)
       /\ \E i \in PageResponses(path, "ip.json"),
             j \in PageResponsesV6(path),
             r \in PageResponses(path, "range.json"),
             n \in PageResponses(path, "subnet.json"),
             b \in PageResponses(path, "block.json") :
            server = [vf \in Versions \X Files |->
                        CASE vf = <<"v4", "ip.json">> -> i
                          [] vf = <<"v6", "ip.json">> -> j
                          [] vf = <<"v4", "range.json">> -> r
                          [] vf = <<"v4", "subnet.json">> -> n
                          [] vf = <<"v4", "block.json">> -> b
                          [] OTHER -> NotFound]
       /\ classList = Template(path)
       /\ rows = (PageTable(path) :> <<>>)
  /\ formInput = <<>> /\ formQuery = NoQuery /\ qpc = "idle"
  /\ calls = <<>> /\ inflight = {} /\ arrived = <<>> /\ settled = <<>>
  /\ page = "none" /\ title = <<>> /\ content = <<>> /\ href = <<>>
  /\ RangeIdle /\ SearchIdle

SetDom(d) ==
  /\ title' = d.title
  /\ content' = d.content
  /\ classList' = d.classList
  /\ rows' = d.rows
  /\ href' = d.href

IpamCall(op, file, addr, arg) ==
  [op |-> op, file |-> file, version |-> IpVersion(addr), arg |-> arg]

\* lookup_ip
LookupIp ==
  /\ page = "none" /\ location.path = "/lookup/ip.html"
  /\ page' = "lookup_ip"
  /\ IF ~IsIP(global)
     THEN /\ SetDom(Error(Dom, MessageIp, TRUE))
          /\ UNCHANGED fetchVars
     ELSE /\ SetDom(SetTitle(Dom, StringOf(global)))
          /\ MakeCalls(("ip" :> IpamCall("fetchIp", "ip.json", global, global))
                       @@ ("range" :> IpamCall("fetchRangeByIp", "range.json",
                                               global, global))
                       @@ ("subnet" :> IpamCall("fetchSubnetByIp", "subnet.json",
                                                global, global)))
  /\ UNCHANGED <<rangeVars, queryVars, searchVars>>

\* lookup_range
LookupRange ==
  /\ page = "none" /\ location.path = "/lookup/range.html"
  /\ page' = "lookup_range"
  /\ IF ~IsIpRange(global)
     THEN /\ SetDom(Error(Dom, MessageRange, TRUE))
          /\ UNCHANGED fetchVars
     ELSE /\ SetDom(SetTitle(Dom, StringOf(global)))
          /\ MakeCalls(("range" :> IpamCall("fetchRange", "range.json",
                                            global.first, global))
                       @@ ("subnet" :> IpamCall("fetchSubnetByIp", "subnet.json",
                                                global.first, global.first))
                       @@ ("table" :> IpamCall("fetchIpOfRange", "ip.json",
                                               global.first, global)))
  /\ UNCHANGED <<rangeVars, queryVars, searchVars>>

\* lookup_subnet
LookupSubnet ==
  /\ page = "none" /\ location.path = "/lookup/subnet.html"
  /\ page' = "lookup_subnet"
  /\ IF ~IsSubnet(global)
     THEN /\ SetDom(Error(Dom, MessageSubnet, TRUE))
          /\ UNCHANGED fetchVars
     ELSE /\ SetDom(SetTitle(Dom, StringOf(global)))
          /\ MakeCalls(("subnet" :> IpamCall("fetchSubnet", "subnet.json",
                                             global.addr, global))
                       @@ ("block" :> IpamCall("fetchBlockByIp", "block.json",
                                               global.addr, global.addr))
                       @@ ("table" :> IpamCall("fetchRangeOfSubnet", "range.json",
                                               global.addr, global)))
  /\ UNCHANGED <<rangeVars, queryVars, searchVars>>

\* lookup_block
LookupBlock ==
  /\ page = "none" /\ location.path = "/lookup/block.html"
  /\ page' = "lookup_block"
  /\ IF ~IsSubnet(global)
     THEN /\ SetDom(Error(Dom, MessageSubnet, TRUE))
          /\ UNCHANGED fetchVars
     ELSE /\ SetDom(SetTitle(Dom, StringOf(global)))
          /\ MakeCall("table", IpamCall("fetchSubnetOfBlock", "subnet.json",
                                        global.addr, global))
  /\ UNCHANGED <<rangeVars, queryVars, searchVars>>

\* (data && 'percentUtilized' in data) ? data.percentUtilized : null
PercentUtilized(data) ==
  IF data # Undefined /\ "percentUtilized" \in DOMAIN data
  THEN data["percentUtilized"] ELSE Null

ItemIp(item) == IF "ip" \in DOMAIN item THEN item["ip"] ELSE Undefined

\* The callback a site function has attached to the promise of a call
Callback(d, fn, id, data) ==
  CASE fn = "lookup_ip" /\ id = "ip" -> FillCard(d, "ip", data)
    [] fn = "lookup_ip" /\ id = "byname" ->
         AddTableRows(d, "ip", TableTemplate("ip"),
                      SelectSeq(data, LAMBDA item :
                                  ItemIp(item) # ItemIp(settled["ip"].value)))
    [] fn = "lookup_ip" /\ id = "range" -> FillCard(d, "range", data)
    [] fn = "lookup_ip" /\ id = "subnet" -> FillSubnet(d, data, StringOf(global))
    [] fn = "lookup_range" /\ id = "range" ->
         DrawGraph(FillCard(d, "range", data), "utilization", PercentUtilized(data))
    [] fn = "lookup_range" /\ id = "subnet" -> FillSubnet(d, data, <<>>)
    [] fn = "lookup_range" /\ id = "table" ->
         AddTableRows(d, "ip", TableTemplate("ip"), data)
    [] fn = "lookup_subnet" /\ id = "subnet" ->
         DrawGraph(FillSubnet(d, data, <<>>), "utilization", PercentUtilized(data))
    [] fn = "lookup_subnet" /\ id = "block" -> FillCard(d, "block", data)
    [] fn = "lookup_subnet" /\ id = "table" ->
         AddTableRows(d, "range", TableTemplate("range"), data)
    [] fn = "lookup_block" /\ id = "table" ->
         AddTableRows(d, "subnet", TableTemplate("subnet"), data)

\* The calls a callback makes: lookup_ip looks for the other addresses of
\* the name, when the IP has one
CallbackCalls(fn, id, data) ==
  IF fn = "lookup_ip" /\ id = "ip" /\ data # Undefined /\ Truthy(data, "name")
  THEN "byname" :> [op |-> "fetchIpByName", file |-> "ip.json",
                    version |-> "null", arg |-> data["name"]]
  ELSE <<>>

\* A response arrives: the chain of IPAM.fetch and of the lookup runs and,
\* when the promise of the call resolves, the callback of the site function
PageRespond ==
  /\ \E r \in inflight :
       \E arr \in {Append(arrived,
                          [id |-> r[1], v |-> r[2],
                           res |-> Fetch(server[<<r[2], calls[r[1]].file>>])])} :
         \E res \in {IF settled[r[1]].state = "pending"
                      THEN CallResult(calls[r[1]], r[1], arr) ELSE settled[r[1]]} :
           \E runs \in {settled[r[1]].state = "pending" /\ res.state = "fulfilled"} :
             \E new \in {IF runs THEN CallbackCalls(page, r[1], res.value) ELSE <<>>} :
               /\ arrived' = arr
               /\ calls' = calls @@ new
               /\ inflight' = (inflight \ {r})
                                \cup {n \in (DOMAIN new) \X Versions :
                                        n[2] \in RequestedVersions(new[n[1]])}
               /\ settled' = [settled EXCEPT ![r[1]] = res]
                               @@ [n \in DOMAIN new |-> Pending]
               /\ SetDom(IF runs THEN Callback(Dom, page, r[1], res.value) ELSE Dom)
  /\ UNCHANGED <<server, page, rangeVars, queryVars, searchVars>>

NextPage == LookupIp \/ LookupRange \/ LookupSubnet \/ LookupBlock \/ PageRespond
SpecPage == PageInit /\ [][NextPage]_vars

(***************************************************************************)
(* The lookups of IPAM, called one at a time on a server with one          *)
(* collection of IPv4 records (the IPv6 files are missing).                *)
(***************************************************************************)
TextIp11 == <<"1", "0", ".", "0", ".", "1", ".", "1">>
TextIp21 == <<"1", "0", ".", "1", ".", "0", ".", "1">>
TextNet10x24 == <<"1", "0", ".", "0", ".", "0", ".", "0", "/", "2", "4">>
TextNet11x24 == <<"1", "0", ".", "0", ".", "1", ".", "0", "/", "2", "4">>
TextNet10x16 == <<"1", "0", ".", "0", ".", "0", ".", "0", "/", "1", "6">>
TextNet10x23 == <<"1", "0", ".", "0", ".", "0", ".", "0", "/", "2", "3">>

\* The records of the collections
LookupRecords(file) ==
  CASE file = "ip.json" ->
         { [ip |-> S(TextIp1), name |-> S(TextAb)],
           [ip |-> S(TextIp9), mac |-> S(TextMac)],
           [ip |-> S(TextIp11)] }
    [] file = "range.json" ->
         { [ip_first |-> S(TextIp1), ip_last |-> S(TextIp9), name |-> S(TextAb)],
           [ip_first |-> S(TextIp9), ip_last |-> S(TextIp11)],
           [ip_first |-> S(TextIp11), ip_last |-> S(TextIp11)] }
    [] file = "subnet.json" ->
         { [network |-> S(TextNet8), name |-> S(TextAb)],
           [network |-> S(TextNet10x24), owner |-> S(TextLookupUrl)],
           [network |-> S(TextNet11x24)] }
    [] file = "block.json" ->
         { [network |-> S(TextNet8), description |-> S(TextAb)],
           [network |-> S(TextNet10x24)],
           [network |-> S(TextNet11x24)] }
LookupResponses(file) ==
  {NotFound, ServerError}
    \cup {Ok(b) : b \in SeqsUpTo(LookupRecords(file), MaxLookupRecords)}

\* The arguments of the lookups: IP addresses, ranges and CIDR subnets
LookupIps ==
  {Process(t) : t \in {TextIp1, TextIp9, TextIp11, TextIp21}}
    \cup {IPv6(<<0, 0, 0, 0, 0, 0, 0, 1>>)}
LookupRanges ==
  {IpRange(Process(a), Process(b)) :
     a \in {TextIp1, TextIp9}, b \in {TextIp1, TextIp9, TextIp11}}
LookupSubnets ==
  {ParseCIDR(t) : t \in {TextNet8, TextNet10x16, TextNet10x23, TextNet10x24,
                         TextNet11x24}}

LookupInit ==
  /\ \E file \in Files :
       \E r4 \in LookupResponses(file) :
         server = [vf \in Versions \X Files |->
                     IF vf = <<"v4", file>> THEN r4 ELSE NotFound]
  /\ calls = <<>> /\ inflight = {} /\ arrived = <<>> /\ settled = <<>>
  /\ RangeIdle /\ QueryIdle /\ SearchIdle /\ PageIdle

\* One call of a lookup: it throws, or its request is sent
LookupCall(call) ==
  IF CallThrows(call)
  THEN /\ calls' = ("call" :> call)
       /\ settled' = ("call" :> Thrown)
       /\ UNCHANGED <<server, inflight, arrived>>
  ELSE MakeCall("call", call)

\* IPAM.fetchIpOfRange(range), with an IpRange and with a subnet pair
IpamFetchIpOfRange ==
  /\ calls = <<>>
  /\ \E r \in LookupRanges \cup LookupSubnets :
       LookupCall([op |-> "fetchIpOfRange", file |-> "ip.json",
                   version |-> IF r.cls = "IpRange" THEN IpVersion(r.first)
                               ELSE "null",
                   arg |-> r])
  /\ UNCHANGED <<rangeVars, queryVars, searchVars, pageVars>>

\* IPAM.fetchRange(range)
IpamFetchRange ==
  /\ calls = <<>>
  /\ \E r \in LookupRanges :
       LookupCall(IpamCall("fetchRange", "range.json", r.first, r))
  /\ UNCHANGED <<rangeVars, queryVars, searchVars, pageVars>>

\* IPAM.fetchRangeByIp(ip)
IpamFetchRangeByIp ==
  /\ calls = <<>>
  /\ \E a \in LookupIps : LookupCall(IpamCall("fetchRangeByIp", "range.json", a, a))
  /\ UNCHANGED <<rangeVars, queryVars, searchVars, pageVars>>

\* IPAM.fetchRangeOfSubnet(subnet)
IpamFetchRangeOfSubnet ==
  /\ calls = <<>>
  /\ \E n \in LookupSubnets :
       LookupCall(IpamCall("fetchRangeOfSubnet", "range.json", n.addr, n))
  /\ UNCHANGED <<rangeVars, queryVars, searchVars, pageVars>>

\* IPAM.fetchSubnetByIp(ip)
IpamFetchSubnetByIp ==
  /\ calls = <<>>
  /\ \E a \in LookupIps : LookupCall(IpamCall("fetchSubnetByIp", "subnet.json", a, a))
  /\ UNCHANGED <<rangeVars, queryVars, searchVars, pageVars>>

\* IPAM.fetchSubnetOfBlock(block)
IpamFetchSubnetOfBlock ==
  /\ calls = <<>>
  /\ \E n \in LookupSubnets :
       LookupCall(IpamCall("fetchSubnetOfBlock", "subnet.json", n.addr, n))
  /\ UNCHANGED <<rangeVars, queryVars, searchVars, pageVars>>

\* IPAM.fetchBlockByIp(ip)
IpamFetchBlockByIp ==
  /\ calls = <<>>
  /\ \E a \in LookupIps : LookupCall(IpamCall("fetchBlockByIp", "block.json", a, a))
  /\ UNCHANGED <<rangeVars, queryVars, searchVars, pageVars>>

\* The response arrives
LookupRespond ==
  /\ \E r \in inflight : Respond(r[1], r[2])
  /\ UNCHANGED <<rangeVars, queryVars, searchVars, pageVars>>

NextLookup ==
  \/ IpamFetchIpOfRange \/ IpamFetchRange \/ IpamFetchRangeByIp
  \/ IpamFetchRangeOfSubnet \/ IpamFetchSubnetByIp \/ IpamFetchSubnetOfBlock
  \/ IpamFetchBlockByIp \/ LookupRespond
SpecLookup == LookupInit /\ [][NextLookup]_vars

(***************************************************************************)
(* Page.addTableRows, called on one table with lists of items.             *)
(***************************************************************************)
\* The header of a table: the data-field of the cells of its first row and
\* the data-link and data-link-field of the table
TableHeader(name) ==
  CASE name = "ip" ->
         [fields |-> <<"ip", "name", "description">>,
          link |-> "/lookup/ip.html", linkField |-> "ip"]
    [] name = "range" ->
         [fields |-> <<"range", "name", "percentUtilized", "percentAssigned">>,
          link |-> "/lookup/range.html", linkField |-> "range"]
    [] name = "search" ->
         [fields |-> <<"type", "name", "data">>,
          link |-> "/search.html", linkField |-> "name"]
TableNames == {"ip", "range", "search"}

\* The items passed: IP records, enriched range records, search results
TableItems(name) ==
  CASE name = "ip" ->
         { [ip |-> S(TextIp1), name |-> S(TextAb), mac |-> S(TextMac)],
           [ip |-> S(TextIp9), description |-> S(TextLt)] }
    [] name = "range" ->
         { EnrichRange([ip_first |-> S(TextIp1), ip_last |-> S(TextIp9),
                        name |-> S(TextAmp), percentUtilized |-> N(80)]),
           EnrichRange([ip_first |-> S(TextIp9), ip_last |-> S(TextIp9)]) }
    [] name = "search" ->
         { [type |-> S(<<"I", "P">>), name |-> S(TextIp1),
            link |-> ToResourceUrl("/lookup/ip.html", TextIp1),
            data |-> S(TextAb)],
           [type |-> S(<<"I", "P">>), name |-> S(TextIp9)] }

TableInit ==
  /\ \E name \in TableNames : rows = (name :> <<>>)
  /\ page = "none" /\ title = <<>> /\ content = <<>> /\ classList = <<>>
  /\ href = <<>>
  /\ server = <<>> /\ calls = <<>> /\ inflight = {} /\ arrived = <<>>
  /\ settled = <<>>
  /\ RangeIdle /\ QueryIdle /\ SearchIdle

\* Page.addTableRows(table, data); calls keeps the calls made
PageAddTableRows ==
  /\ Len(calls) < MaxTableCalls
  /\ \E name \in DOMAIN rows :
       \E data \in SeqsUpTo(TableItems(name), MaxTableItems) :
         /\ rows' = AddTableRows(Dom, name, TableHeader(name), data).rows
         /\ calls' = Append(calls, [op |-> "addTableRows", table |-> name,
                                    data |-> data])
  /\ UNCHANGED <<page, title, content, classList, href>>
  /\ UNCHANGED <<server, inflight, arrived, settled>>
  /\ UNCHANGED <<rangeVars, queryVars, searchVars>>

NextTable == PageAddTableRows
SpecTable == TableInit /\ [][NextTable]_vars

(***************************************************************************)
(* A CIDR subnet, the range of its addresses, and an address matched       *)
(* against both.                                                           *)
(***************************************************************************)
\* The prefix lengths tried, for IPv4 and for the two varied parts of IPv6
Bits4 == {0, 8, 16, 22, 23, 24, 30, 31, 32}
Bits6 == {0, 64, 96, 104, 111, 112, 120, 127, 128}

\* The parts of the first and of the last address of a subnet: the bits
\* after the prefix cleared, respectively set
PrefixParts(parts, partSize, bits, last) ==
  [p \in DOMAIN parts |->
     LET before == (p - 1) * partSize
         inPrefix == IF bits <= before THEN 0
                     ELSE IF bits >= before + partSize THEN partSize
                     ELSE bits - before
         low == 2 ^ (partSize - inPrefix)
     IN  (parts[p] \div low) * low + (IF last THEN low - 1 ELSE 0)]
NetworkAddress(n) ==
  IF n.addr.kind = "ipv4" THEN IPv4(PrefixParts(n.addr.octets, 8, n.bits, FALSE))
  ELSE IPv6(PrefixParts(n.addr.parts, 16, n.bits, FALSE))
BroadcastAddress(n) ==
  IF n.addr.kind = "ipv4" THEN IPv4(PrefixParts(n.addr.octets, 8, n.bits, TRUE))
  ELSE IPv6(PrefixParts(n.addr.parts, 16, n.bits, TRUE))

\* global is the subnet, range the IpRange from its first to its last
\* address
CidrInit ==
  /\ \E pb \in {<<V4Pool, Bits4>>, <<V6Pool, Bits6>>} :
       \E a \in pb[1], bits \in pb[2] :
         /\ global = Subnet(a, bits)
         /\ range = IpRange(NetworkAddress(global), BroadcastAddress(global))
         /\ ip \in pb[1]
  /\ matched = "unset"
  /\ results = NoSearch /\ searchQuery = <<>>
  /\ formInput = <<>> /\ formQuery = NoQuery /\ location = NoLocation
  /\ qpc = "idle"
  /\ FetchIdle /\ PageIdle

\* range.match(ip)
RangeMatch ==
  /\ matched = "unset"
  /\ matched' = IF Match(range, ip) THEN "true" ELSE "false"
  /\ UNCHANGED <<range, ip, queryVars, fetchVars, searchVars, pageVars>>

\* ip.match(subnet), as in IPAM.fetchSubnetByIp
SubnetMatch ==
  /\ results = NoSearch
  /\ results' = [state |-> IF IpMatch(ip, global) THEN "true" ELSE "false"]
  /\ UNCHANGED <<range, ip, matched, queryVars, fetchVars, searchQuery, pageVars>>

NextCidr == RangeMatch \/ SubnetMatch
SpecCidr == CidrInit /\ [][NextCidr]_vars

(***************************************************************************)
(* C1.                                                                     *)
(***************************************************************************)
\* a <= b in the lexicographic order of the byte arrays, most significant
\* byte first
LexLE(a, b) ==
  \/ a = b
  \/ \E i \in DOMAIN a : a[i] < b[i] /\ \A j \in 1..(i - 1) : a[j] = b[j]

\* C1: IpRange.match(ip) returns true exactly when first <= ip <= last in the
\* lexicographic order of the bytes (most significant first), for addresses
\* of one family; so both boundaries are inclusive and a range with
\* first > last matches nothing.
C1_MatchIsLexInterval ==
  matched # "unset" =>
    LET a == ToByteArray(ip)
        f == ToByteArray(range.first)
        l == ToByteArray(range.last)
    IN  /\ (matched = "true") <=> (LexLE(f, a) /\ LexLE(a, l))
        /\ (ip = range.first /\ LexLE(f, l)) => matched = "true"
        /\ (ip = range.last /\ LexLE(f, l)) => matched = "true"
        /\ ~LexLE(f, l) => matched = "false"

\* An address strictly inside a range has been matched, where the first
\* differing byte decides against the later ones.
C1_Witness ==
  /\ matched = "true"
  /\ ip.kind = "ipv4"
  /\ ip # range.first /\ ip # range.last
  /\ ip.octets[2] > range.first.octets[2]
  /\ ip.octets[3] < range.first.octets[3]
  /\ ip.octets[2] = range.last.octets[2]
  /\ ip.octets[3] = range.last.octets[3]
  /\ ip.octets[4] < range.last.octets[4]

(***************************************************************************)
(* C2, C7, C8.                                                             *)
(***************************************************************************)
\* C2: Query.parse classifies every string into exactly one of four kinds:
\* a valid IP address gives the IP object, else two valid IP addresses
\* separated by one '-' give the IpRange, else a valid CIDR string gives the
\* pair [address, prefix length], else the result is the trimmed input
\* string; it never throws.
C2_ParseClassifies ==
  qpc # "form" =>
    /\ formQuery # Nothing
    /\ Cardinality({k \in {"ip", "range", "subnet", "string"} :
                      \/ k = "ip" /\ IsIP(formQuery)
                      \/ k = "range" /\ IsIpRange(formQuery)
                      \/ k = "subnet" /\ IsSubnet(formQuery)
                      \/ k = "string" /\ IsString(formQuery)}) = 1
    /\ \A c \in QueryCases : c.text = formInput => formQuery = c.expect

\* Every kind has been parsed: here a text padded with blanks, which is a
\* string although its trimmed form is a range.
C2_Witness ==
  /\ qpc # "form"
  /\ IsString(formQuery)
  /\ formInput # formQuery.chars
  /\ RangeIsValid(formQuery.chars)

\* C7: Search.getResourceTypeUrl gives the IP page for an IP object, the
\* range page for an IpRange, the subnet page for a CIDR pair and the search
\* page for anything else, and exactly one of the four applies to a result
\* of Query.parse.
C7_ResourceTypeUrl ==
  qpc # "form" =>
    \A c \in QueryCases : c.text = formInput =>
      /\ location.path = "/lookup/ip.html" <=> IsIP(c.expect)
      /\ location.path = "/lookup/range.html" <=> IsIpRange(c.expect)
      /\ location.path = "/lookup/subnet.html" <=> IsSubnet(c.expect)
      /\ location.path = "/search.html" <=> IsString(c.expect)
      /\ location.path \in {"/lookup/ip.html", "/lookup/range.html",
                            "/lookup/subnet.html", "/search.html"}

\* A range has been sent to the range page.
C7_Witness ==
  /\ qpc = "redirected"
  /\ IsIpRange(formQuery)
  /\ location.path = "/lookup/range.html"

\* C8: for every submitted string that Query.parse classifies as an IP
\* address, an IP range or a CIDR subnet, the page the form redirects to
\* parses its q parameter into a query of the same kind and value.
C8_RedirectRoundTrip ==
  (qpc = "loaded" /\ (IsIP(formQuery) \/ IsIpRange(formQuery) \/ IsSubnet(formQuery)))
    => global = formQuery

(***************************************************************************)
(* C3, C4, C5.                                                             *)
(***************************************************************************)
\* The HTTP response of the server to a request of the call
ResponseTo(call, v) == server[<<v, call.file>>]
\* The records of a response, as the file holds them
BodyOf(response) == IF response.status = 200 THEN response.body ELSE <<>>

\* C3: IPAM.fetch(ipVersion, file) resolves to an empty array when the
\* server answers 404, so every caller sees a missing collection as an
\* empty one and not as an error.
C3_NotFoundIsEmpty ==
  \A id \in DOMAIN calls :
    LET call == calls[id]
    IN  /\ (/\ call.version # "null"
            /\ HasArrived(arrived, id, call.version)
            /\ ResponseTo(call, call.version).status = 404)
           => settled[id] = Fulfilled(<<>>)
        /\ \A e \in {arrived[i] : i \in DOMAIN arrived} :
             ResponseTo(calls[e.id], e.v).status = 404 => e.res = Fulfilled(<<>>)

\* IPAM.fetch has resolved to the empty array for a 404.
C3_Witness ==
  /\ "call" \in DOMAIN calls
  /\ calls["call"].op = "fetch"
  /\ ResponseTo(calls["call"], calls["call"].version).status = 404
  /\ settled["call"] = Fulfilled(<<>>)

\* C4: IPAM.fetchCollection(file) without a version resolves to the v4
\* records followed by the v6 records, each in file order, in whatever order
\* the two fetches complete; if one version answers 404 the result is the
\* other version's records; with a version given only that one is fetched.
C4_CollectionOrder ==
  \A id \in DOMAIN calls :
    LET call == calls[id]
        rec(v) == Fetch(ResponseTo(call, v)).value
        requested == {r[2] : r \in {x \in inflight : x[1] = id}}
                       \cup {v \in Versions : HasArrived(arrived, id, v)}
    IN  call.op = "fetchCollection" =>
          /\ call.version = "null" =>
               /\ requested = Versions
               /\ settled[id].state = "fulfilled" =>
                    /\ settled[id].value = rec("v4") \o rec("v6")
                    /\ ResponseTo(call, "v4").status = 404 => settled[id].value = rec("v6")
                    /\ ResponseTo(call, "v6").status = 404 => settled[id].value = rec("v4")
               /\ (\A v \in Versions : /\ HasArrived(arrived, id, v)
                                       /\ ResponseTo(call, v).status \in {200, 404})
                    => settled[id].state = "fulfilled"
          /\ call.version # "null" =>
               /\ requested = {call.version}
               /\ settled[id].state = "fulfilled" => settled[id].value = rec(call.version)

\* The v6 fetch completed before the v4 fetch, both with records, and the
\* collection is there.
C4_Witness ==
  /\ "call" \in DOMAIN calls
  /\ calls["call"].op = "fetchCollection"
  /\ calls["call"].version = "null"
  /\ settled["call"].state = "fulfilled"
  /\ Len(arrived) = 2 /\ arrived[1].v = "v6"
  /\ Len(arrived[1].res.value) = 2 /\ Len(arrived[2].res.value) = 2

\* The text a source text must be delivered as: every '&', '<' and '"'
\* replaced by its entity, all other characters kept
RECURSIVE Escaping(_)
Escaping(str) ==
  IF str = <<>> THEN <<>>
  ELSE (CASE str[1] = "&" -> AmpEntity
          [] str[1] = "<" -> LtEntity
          [] str[1] = "\"" -> QuotEntity
          [] OTHER -> <<str[1]>>) \o Escaping(Tail(str))

\* The records of the API files a fulfilled call delivers, in its order
SourceRecords(call) ==
  IF call.version # "null" THEN BodyOf(ResponseTo(call, call.version))
  ELSE BodyOf(ResponseTo(call, "v4")) \o BodyOf(ResponseTo(call, "v6"))

\* C5: every record an IPAM fetch operation delivers is sanitized: no
\* top-level string value holds a raw '<' or '"', and every '&' of the
\* source text is delivered as '&amp;'.
C5_Sanitized ==
  \A id \in DOMAIN calls :
    settled[id].state = "fulfilled" =>
      LET out == settled[id].value
          src == SourceRecords(calls[id])
      IN  /\ Len(out) = Len(src)
          /\ \A i \in DOMAIN out :
               /\ \A k \in DOMAIN out[i] :
                    out[i][k].t = "string" =>
                      \A n \in DOMAIN out[i][k].v : out[i][k].v[n] \notin {"<", "\""}
               /\ \A k \in DOMAIN src[i] \cap DOMAIN out[i] :
                    (src[i][k].t = "string" /\ out[i][k].t = "string")
                      => out[i][k].v = Escaping(src[i][k].v)

\* IPAM.fetchIpAll has delivered a record whose source texts hold '&', '"'
\* and '<'.
C5_Witness ==
  /\ "call" \in DOMAIN calls
  /\ settled["call"].state = "fulfilled"
  /\ \E i \in DOMAIN settled["call"].value :
       LET src == SourceRecords(calls["call"])[i]
       IN  /\ "name" \in DOMAIN src /\ src["name"].v = TextAmp
           /\ "description" \in DOMAIN src /\ src["description"].v = TextQuot
  /\ calls["call"].op = "fetchIpAll"

(***************************************************************************)
(* C6.                                                                     *)
(***************************************************************************)
\* A field of a record matches the query: it is there and the query occurs
\* in it, ignoring case, a '.' of the query standing for any character
FieldMatches(data, key, query) ==
  /\ key \in DOMAIN data
  /\ data[key].t = "string"
  /\ \E i \in DOMAIN data[key].v : MatchesAt(data[key].v, i, query)

\* The results the search must resolve to
MatchingFields(data, query) ==
  SelectSeq(SearchFields, LAMBDA k : FieldMatches(data, k, query))
ExpectedResult(type, data, query) ==
  [type |-> IF type = "ip" THEN "IP" ELSE "Block",
   name |-> data[IF type = "ip" THEN "ip" ELSE "network"],
   link |-> ToResourceUrl(IF type = "ip" THEN "/lookup/ip.html"
                                         ELSE "/lookup/block.html",
                          data[IF type = "ip" THEN "ip" ELSE "network"].v),
   data |-> LET m == MatchingFields(data, query)
            IN  Join([i \in DOMAIN m |-> Highlight(data[m[i]].v, query)], LineBreak)]
ExpectedResults(query) ==
  LET ips == settled["ip"].value
      blocks == settled["block"].value
      all == [i \in DOMAIN ips |-> [type |-> "ip", data |-> ips[i]]]
               \o [i \in DOMAIN blocks |-> [type |-> "block", data |-> blocks[i]]]
      hit == SelectSeq(all, LAMBDA e : MatchingFields(e.data, query) # <<>>)
  IN  [i \in DOMAIN hit |-> ExpectedResult(hit[i].type, hit[i].data, query)]

SearchCollectionsThere ==
  /\ results # NoSearch
  /\ \A id \in {"ip", "block"} : settled[id].state = "fulfilled"

\* C6: Search.search(query) resolves to one result per record of the IP and
\* block collections (both IP versions) of which at least one of the fields
\* name, type, asset, serial, site, scope, owner, description matches the
\* query case-insensitively, to no result for any other record, and the
\* 'data' of a result lists exactly the matching fields.
C6_SearchResults ==
  SearchCollectionsThere =>
    /\ results.state = "fulfilled"
    /\ results.value = ExpectedResults(searchQuery)

\* The same for the queries that are regular expressions: for them the
\* search resolves as C6 says.
SearchResultsOfPatterns ==
  (SearchCollectionsThere /\ ~PatternThrows(searchQuery)) =>
    /\ results.state = "fulfilled"
    /\ results.value = ExpectedResults(searchQuery)

\* With a query that is no regular expression the search is rejected as
\* soon as a record has one of the fields, and resolves to no result else.
SearchRejectsNonPattern ==
  (SearchCollectionsThere /\ PatternThrows(searchQuery)) =>
    IF \E id \in {"ip", "block"} : \E i \in DOMAIN settled[id].value :
         \E k \in DOMAIN SearchFields : SearchFields[k] \in DOMAIN settled[id].value[i]
    THEN results.state = "rejected"
    ELSE results = Fulfilled(<<>>)

(***************************************************************************)
(* C9, C10.                                                                *)
(***************************************************************************)
\* The kind of query a site function requires
OfRequiredKind(fn, q) ==
  CASE fn = "lookup_ip" -> "kind" \in DOMAIN q /\ q.kind \in {"ipv4", "ipv6"}
    [] fn = "lookup_range" -> "first" \in DOMAIN q
    [] fn \in {"lookup_subnet", "lookup_block"} -> "bits" \in DOMAIN q
ErrorMessage(fn) ==
  CASE fn = "lookup_ip" -> MessageIp
    [] fn = "lookup_range" -> MessageRange
    [] fn \in {"lookup_subnet", "lookup_block"} -> MessageSubnet

\* C9: each lookup function validates the global query first: when it is
\* not of the required kind (a null query included) the error message is
\* displayed with title 'Error', the content element is hidden, the error
\* element is shown, no fetch is issued and no card or table is filled.
C9_InvalidQueryIsError ==
  (page # "none" /\ ~OfRequiredKind(page, global)) =>
    /\ title = TitlePrefix \o <<"E", "r", "r", "o", "r">>
    /\ DOMAIN content = {<<"title">>, <<"error.message">>}
    /\ content[<<"title">>] = S(<<"E", "r", "r", "o", "r">>)
    /\ content[<<"error.message">>] = S(ErrorMessage(page))
    /\ "d-none" \in classList[<<"content">>]
    /\ "d-block" \notin classList[<<"content">>]
    /\ "d-block" \in classList[<<"error">>]
    /\ "d-none" \notin classList[<<"error">>]
    /\ calls = <<>> /\ inflight = {} /\ arrived = <<>>
    /\ \A t \in DOMAIN rows : rows[t] = <<>>
    /\ \A id \in DOMAIN classList \ {<<"content">>, <<"error">>} :
         classList[id] = Template(location.path)[id]
    /\ href = <<>>

\* lookup_block has shown the error for a page without a query.
C9_Witness ==
  /\ page = "lookup_block"
  /\ global = Null
  /\ "d-block" \in classList[<<"error">>]

\* The cards of a site function and the call whose promise fills each
CardFetches(fn) ==
  CASE fn = "lookup_ip" ->
         {<<"ip", "ip">>, <<"range", "range">>, <<"subnet", "subnet">>}
    [] fn = "lookup_range" ->
         {<<"range", "range">>, <<"utilization", "range">>, <<"subnet", "subnet">>}
    [] fn = "lookup_subnet" ->
         {<<"subnet", "subnet">>, <<"utilization", "subnet">>, <<"block", "block">>}
    [] OTHER -> {}

InitialDom(path) ==
  [title |-> <<>>, content |-> <<>>, classList |-> Template(path),
   rows |-> (PageTable(path) :> <<>>), href |-> <<>>]
DomAfterLookup == SetTitle(InitialDom(location.path), StringOf(global))

\* The callbacks of the resolved promises, run in one fixed order
CallOrder == <<"ip", "range", "subnet", "block", "table", "byname">>
RECURSIVE RunCallbacks(_, _)
RunCallbacks(d, ids) ==
  IF ids = <<>> THEN d
  ELSE RunCallbacks(IF Head(ids) \in DOMAIN settled
                       /\ settled[Head(ids)].state = "fulfilled"
                    THEN Callback(d, page, Head(ids), settled[Head(ids)].value)
                    ELSE d,
                    Tail(ids))

\* C11: the fetches one lookup starts are independent, their callbacks
\* write disjoint slots of the page: once every response has arrived the
\* page is the same for every order of arrival, namely the page the
\* callbacks give when run in one fixed order.
C11_OrderIndependent ==
  (page # "none" /\ OfRequiredKind(page, global) /\ inflight = {}) =>
    Dom = RunCallbacks(DomAfterLookup, CallOrder)

\* On the IP page the subnet arrived first and the IP last of the three,
\* all with data, the subnet with a lookup URL, and the other address of the
\* name has been added to the table.
C11_Witness ==
  /\ page = "lookup_ip" /\ inflight = {} /\ Len(arrived) >= 3
  /\ {"ip", "range", "subnet"} \subseteq DOMAIN settled
  /\ arrived[1].id = "subnet" /\ arrived[2].id = "range" /\ arrived[3].id = "ip"
  /\ \A id \in {"ip", "range", "subnet"} :
       settled[id].state = "fulfilled" /\ settled[id].value # Undefined
  /\ href # <<>>
  /\ Len(rows["ip"]) = 1

(***************************************************************************)
(* C12 .. C16: the lookups.                                                *)
(***************************************************************************)
\* An IPv4 address as a number, and what lying within a range and within a
\* CIDR subnet mean for numbers
AddrNum(a) ==
  ((a.octets[1] * 256 + a.octets[2]) * 256 + a.octets[3]) * 256 + a.octets[4]
InRange(a, r) ==
  /\ a.kind = "ipv4" /\ r.first.kind = "ipv4" /\ r.last.kind = "ipv4"
  /\ AddrNum(r.first) <= AddrNum(a) /\ AddrNum(a) <= AddrNum(r.last)
InSubnet(a, n) ==
  /\ a.kind = "ipv4" /\ n.addr.kind = "ipv4"
  /\ AddrNum(a) \div (2 ^ (32 - n.bits)) = AddrNum(n.addr) \div (2 ^ (32 - n.bits))

\* The one call of a behaviour, whether it is over, and the collection of
\* the argument's IP version as the API serves it (sanitized and enriched)
TheCall == calls["call"]
CallOver(op) == calls # <<>> /\ TheCall.op = op /\ inflight = {}
ArgVersion(arg) ==
  IF "cls" \notin DOMAIN arg THEN IpVersion(arg)
  ELSE IF arg.cls = "IpRange" THEN IpVersion(arg.first)
  ELSE IpVersion(arg.addr)
CollectionOf(file, v) ==
  FetchAll([op |-> "all", file |-> file, version |-> v], "all",
           <<[id |-> "all", v |-> v, res |-> Fetch(server[<<v, file>>])]>>)
Served(file, v) == CollectionOf(file, v).state = "fulfilled"
Collection(file, v) == CollectionOf(file, v).value
ItemAddr(item) == Process(item["ip"].v)
ItemNet(item) == ParseCIDR(item["network"].v)

\* C12: IPAM.fetchIpOfRange(range) resolves to exactly the records of the
\* ip collection, of the range's IP version and in collection order, whose
\* address lies within the range; a subnet pair can be passed as well and
\* gives the records whose address lies in the subnet.
C12_IpOfRange ==
  (CallOver("fetchIpOfRange") /\ Served("ip.json", ArgVersion(TheCall.arg))) =>
    settled["call"] =
      Fulfilled(SelectSeq(Collection("ip.json", ArgVersion(TheCall.arg)),
                          LAMBDA item :
                            IF TheCall.arg.cls = "IpRange"
                            THEN InRange(ItemAddr(item), TheCall.arg)
                            ELSE InSubnet(ItemAddr(item), TheCall.arg)))

\* The part of C12 about an IpRange
IpOfRangeForRanges ==
  (CallOver("fetchIpOfRange") /\ TheCall.arg.cls = "IpRange") => C12_IpOfRange
\* and what happens with a subnet pair
IpOfRangeThrowsForSubnets ==
  (CallOver("fetchIpOfRange") /\ TheCall.arg.cls # "IpRange") =>
    settled["call"] = Thrown

\* The first record of a collection a predicate accepts, undefined when
\* there is none
FirstOf(seq, hits) ==
  IF hits = {} THEN Undefined ELSE seq[Min(hits)]

\* C13: IPAM.fetchRange(range) resolves to the record of the range
\* collection, of the range's IP version, whose first and last address
\* equal range.first and range.last, and to undefined when there is no such
\* record; the promise is not rejected in either case.
C13_FetchRange ==
  (CallOver("fetchRange") /\ Served("range.json", ArgVersion(TheCall.arg))) =>
    LET coll == Collection("range.json", ArgVersion(TheCall.arg))
    IN  settled["call"] =
          Fulfilled(FirstOf(coll,
                            {i \in DOMAIN coll :
                               /\ Process(coll[i]["ip_first"].v) = TheCall.arg.first
                               /\ Process(coll[i]["ip_last"].v) = TheCall.arg.last}))

\* What IPAM.fetchRange does: undefined for an empty collection, and a
\* rejected promise as soon as the collection holds a record
FetchRangeRejects ==
  (CallOver("fetchRange") /\ Served("range.json", ArgVersion(TheCall.arg))) =>
    settled["call"] =
      IF Collection("range.json", ArgVersion(TheCall.arg)) = <<>>
      THEN Fulfilled(Undefined) ELSE Rejected

\* C14: IPAM.fetchRangeOfSubnet(subnet) resolves to exactly the ranges in
\* the subnet: every returned range has its first and its last address in
\* the subnet, and every range of the collection lying within the subnet
\* is returned.
C14_RangeOfSubnet ==
  (CallOver("fetchRangeOfSubnet")
     /\ Served("range.json", ArgVersion(TheCall.arg))) =>
    settled["call"] =
      Fulfilled(SelectSeq(Collection("range.json", ArgVersion(TheCall.arg)),
                          LAMBDA item :
                            /\ InSubnet(Process(item["ip_first"].v), TheCall.arg)
                            /\ InSubnet(Process(item["ip_last"].v), TheCall.arg)))

\* What IPAM.fetchRangeOfSubnet does: the ranges whose first address is in
\* the subnet
RangeOfSubnetByFirst ==
  (CallOver("fetchRangeOfSubnet")
     /\ Served("range.json", ArgVersion(TheCall.arg))) =>
    settled["call"] =
      Fulfilled(SelectSeq(Collection("range.json", ArgVersion(TheCall.arg)),
                          LAMBDA item :
                            InSubnet(Process(item["ip_first"].v), TheCall.arg)))

\* A subnet is contained in a block: all of its addresses, the first and
\* the last one of its span, belong to the block
SubnetFirst(n) == (AddrNum(n.addr) \div (2 ^ (32 - n.bits))) * (2 ^ (32 - n.bits))
SubnetLast(n) == SubnetFirst(n) + (2 ^ (32 - n.bits)) - 1
NumInSubnet(x, n) == SubnetFirst(n) <= x /\ x <= SubnetLast(n)
ContainedIn(n, block) ==
  NumInSubnet(SubnetFirst(n), block) /\ NumInSubnet(SubnetLast(n), block)

\* C15: IPAM.fetchSubnetOfBlock(block) resolves to exactly the subnets in
\* the block: every returned subnet is contained in the block, so its
\* prefix is at least as long as the block's, and every subnet of the
\* collection contained in the block is returned.
C15_SubnetOfBlock ==
  (CallOver("fetchSubnetOfBlock")
     /\ Served("subnet.json", ArgVersion(TheCall.arg))) =>
    /\ settled["call"] =
         Fulfilled(SelectSeq(Collection("subnet.json", ArgVersion(TheCall.arg)),
                             LAMBDA item : ContainedIn(ItemNet(item), TheCall.arg)))
    /\ \A i \in DOMAIN settled["call"].value :
         ItemNet(settled["call"].value[i]).bits >= TheCall.arg.bits

\* What IPAM.fetchSubnetOfBlock does: the subnets whose network address is
\* in the block, whatever their prefix
SubnetOfBlockByAddress ==
  (CallOver("fetchSubnetOfBlock")
     /\ Served("subnet.json", ArgVersion(TheCall.arg))) =>
    settled["call"] =
      Fulfilled(SelectSeq(Collection("subnet.json", ArgVersion(TheCall.arg)),
                          LAMBDA item : InSubnet(ItemNet(item).addr, TheCall.arg)))

\* The lookups by an IP address, their files, and a record containing an
\* address
ByIpFile(op) ==
  CASE op = "fetchRangeByIp" -> "range.json"
    [] op = "fetchSubnetByIp" -> "subnet.json"
    [] op = "fetchBlockByIp" -> "block.json"
ByIpOver ==
  /\ calls # <<>> /\ inflight = {}
  /\ TheCall.op \in {"fetchRangeByIp", "fetchSubnetByIp", "fetchBlockByIp"}
  /\ Served(ByIpFile(TheCall.op), ArgVersion(TheCall.arg))
ByIpCollection == Collection(ByIpFile(TheCall.op), ArgVersion(TheCall.arg))
Contains(op, item, a) ==
  IF op = "fetchRangeByIp"
  THEN InRange(a, IpRange(Process(item["ip_first"].v), Process(item["ip_last"].v)))
  ELSE InSubnet(a, ItemNet(item))

\* C16: IPAM.fetchRangeByIp(ip), fetchSubnetByIp(ip) and fetchBlockByIp(ip)
\* resolve to the first record in collection order, of ip's IP version,
\* that contains ip, and to undefined when no record contains it.
C16_ByIp ==
  ByIpOver =>
    settled["call"] =
      Fulfilled(FirstOf(ByIpCollection,
                        {i \in DOMAIN ByIpCollection :
                           Contains(TheCall.op, ByIpCollection[i], TheCall.arg)}))

\* A subnet was looked up for an address that two different subnets of the
\* collection contain, and the first of the two was delivered.
C16_Witness ==
  /\ ByIpOver /\ TheCall.op = "fetchSubnetByIp"
  /\ Len(ByIpCollection) = 2 /\ ByIpCollection[1] # ByIpCollection[2]
  /\ \A i \in 1..2 : Contains(TheCall.op, ByIpCollection[i], TheCall.arg)
  /\ settled["call"] = Fulfilled(ByIpCollection[1])

(***************************************************************************)
(* C17.                                                                    *)
(***************************************************************************)
\* All items passed to Page.addTableRows so far, in the order passed
RECURSIVE ItemsPassed(_)
ItemsPassed(cs) ==
  IF cs = <<>> THEN <<>> ELSE ItemsPassed(SubSeq(cs, 1, Len(cs) - 1)) \o cs[Len(cs)].data
\* The text of the item's link field without spaces, as a resource
LinkFieldText(item, field) ==
  LET text == IF field \notin DOMAIN item
              THEN <<"u", "n", "d", "e", "f", "i", "n", "e", "d">>
              ELSE IF item[field].t = "IpRange" THEN RangeToString(item[field].v)
              ELSE item[field].v
  IN  SelectSeq(text, LAMBDA c : c # " ")

\* C17: Page.addTableRows(table, data) appends exactly one row per item of
\* data to the table body, in the order of data and after the rows already
\* present, each row with one cell per header field, an absent field
\* rendering as the empty string; the row's click target is the item's own
\* 'link' when it has one, and otherwise the resource URL built from the
\* table's link and the item's link field.
C17_AddTableRows ==
  \A name \in DOMAIN rows :
    (calls # <<>> /\ \A j \in DOMAIN calls : calls[j].op = "addTableRows") =>
      LET items == ItemsPassed(calls)
          header == TableHeader(name)
      IN  /\ Len(rows[name]) = Len(items)
          /\ \A i \in DOMAIN items :
               /\ DOMAIN rows[name][i].cells = DOMAIN header.fields
               /\ \A k \in DOMAIN header.fields :
                    /\ header.fields[k] \notin DOMAIN items[i] =>
                         rows[name][i].cells[k] = S(<<>>)
                    /\ (header.fields[k] \in DOMAIN items[i]
                          /\ header.fields[k] \notin {"percentAssigned",
                                                      "percentUtilized"}) =>
                         rows[name][i].cells[k] = items[i][header.fields[k]]
               /\ rows[name][i].lnk =
                    IF "link" \in DOMAIN items[i] THEN items[i]["link"]
                    ELSE [path |-> header.link,
                          search |-> <<"?", "q", "=">>
                                       \o LinkFieldText(items[i], header.linkField)]

\* Rows were added twice to the table of search results: first one result
\* without a link of its own, then two results the first of which has one.
C17_Witness ==
  /\ DOMAIN rows = {"search"} /\ Len(calls) = 2
  /\ Len(calls[1].data) = 1 /\ Len(calls[2].data) = 2
  /\ "link" \notin DOMAIN calls[1].data[1]
  /\ "link" \in DOMAIN calls[2].data[1]
  /\ Len(rows["search"]) = 3

(***************************************************************************)
(* C18.                                                                    *)
(***************************************************************************)
\* C18: range membership and CIDR membership agree: for a CIDR subnet S
\* and an address ip of the same family, the IpRange from the first
\* (network) address of S to its last (broadcast) address matches ip exactly
\* when ip matches S.
C18_RangeAgreesWithCidr ==
  (matched # "unset" /\ results # NoSearch) => matched = results.state

\* Both have matched: an address in the subnet that differs from the
\* network address in the octet the prefix ends in, and one outside that
\* agrees with the network address in every octet before it.
C18_Witness ==
  /\ matched # "unset" /\ results # NoSearch
  /\ global.addr.kind = "ipv4" /\ global.bits = 23
  /\ ip.octets[2] = global.addr.octets[2]
  /\ ip.octets[3] # global.addr.octets[3]
  /\ matched = "true"
C18_WitnessOutside ==
  /\ matched # "unset" /\ results # NoSearch
  /\ global.addr.kind = "ipv4" /\ global.bits = 23
  /\ ip.octets[2] = global.addr.octets[2]
  /\ matched = "false"

====
